---- MODULE Spec2Model ----
(***************************************************************************)
(* Verification model of the gst_learn tutorial programs                   *)
(* (src/gst_learn/src/main.rs and the older copy src/src/main.rs).         *)
(*                                                                         *)
(* One specification for each part of the program modelled, all in this   *)
(* module:                                                                 *)
(*   SpecFeeder    the appsrc Feeder of tutorial_shortcut_pipeline         *)
(*   SpecFlow      the Feeder's callbacks beside new_sample, with fairness *)
(*   SpecDrain     the new_sample callbacks of the appsinks                *)
(*   SpecWeak      the callbacks that upgrade a Weak handle first          *)
(*   SpecLink      the pad-added callback of tutorial_dynamic_pipeline     *)
(*   SpecRun       one run of a tutorial: the Playing request, the bus     *)
(*                 dispatcher and the teardown                             *)
(*   SpecStreaming tutorial_streaming alone, with fairness                 *)
(*   SpecSpeed     tutorial_playback_speed; SpecRate its rate commands     *)
(*   SpecTags      the tag signals and application handler of the GUI      *)
(*   SpecSlider    the seek bar of the GUI and its timer                   *)
(*   SpecDiscover  tutorial_media_info                                     *)
(* A specification leaves the variables of the others at their initial    *)
(* values.                                                                 *)
(***************************************************************************)
EXTENDS Integers, Sequences, FiniteSets, TLC

(***************************************************************************)
(* Bounds of the model.                                                    *)
(***************************************************************************)
\* chunks the generation task may produce in one behaviour
MaxChunks == 10
\* idle sources need_data may attach in one behaviour
MaxSources == 3
\* pad-added notifications the source node may emit in one behaviour
MaxPads == 3
\* messages the nodes of the graph post on the bus in one run (state changes
\* of the graph itself not counted)
MaxPosted == 2
\* messages the bus holds at a time
MaxBus == 2
\* clicks on the GUI's play, pause and stop buttons in one run
MaxClicks == 1
\* samples the appsink receives in one behaviour
MaxSamples == 30
\* commands tutorial_playback_speed receives in one behaviour
MaxCommands == 3
\* Application messages and tag signals in one behaviour of the tags model
MaxTagPosts == 4
\* seeks issued by the slider of tutorial_guikit in a run
MaxSliderSeeks == 3
\* callbacks invoked in one behaviour of the weak-handle model
MaxWeakCalls == 7

(***************************************************************************)
(* Program constants.                                                      *)
(***************************************************************************)
CHUNK_SIZE == 1024
SAMPLE_RATE == 44100
\* gst::ClockTime::SECOND, in nanoseconds
SECOND == 1000000000
\* tutorial_queue seeks once the position exceeds 3 seconds
SeekAfterSeconds == 3
\* tutorial_streaming pauses below 30 percent of buffering
BufferingThreshold == 30
\* the slider of tutorial_guikit is created with the range 0 to 100
SliderInitialUpper == 100

VARIABLES
    \* ---- Feeder: CustomData behind Arc<Mutex<..>> ----
    source_id,      \* Option<SourceId>: {} is None, {id} is Some(id)
    num_samples,    \* samples generated so far
    \* ---- Feeder: the GLib main context and the threads ----
    sources,        \* ids of the idle sources attached and not destroyed
    next_id,        \* the id g_source_attach hands out next
    mutex,          \* holder of the Mutex<CustomData>: "free", "need", "enough", "task"
    pc_need,        \* need_data callback: "idle" | "locked"
    pc_enough,      \* enough_data callback: "idle" | "locked"
    pc_task,        \* idle closure: "idle" | "start" | "locked" | "push" | "ret"
    task_id,        \* {id} of the source whose closure is running, {} otherwise
    buffer,         \* the chunk in flight: <<>> or <<[pts, duration]>>
    push_ok,        \* result of appsrc.push_buffer(..).is_ok() of the running closure
    panicked,       \* a callback panicked (SourceId::remove of a missing source)
    \* ---- Feeder: history, read by the properties only ----
    stopped,        \* enough_data returned and no need_data was delivered since
    disp_since_stop,\* a closure activation was dispatched while stopped
    gen_since_stop, \* chunks generated while stopped (saturates at 2)
    push_since_stop,\* push_buffer calls while stopped (saturates at 2)
    chunks,         \* chunks generated so far
    last_chunk,     \* the chunk generated last: <<>> or <<[pts, duration]>>
    dur_sum,        \* sum of the durations of the chunks generated so far
    \* ---- Dynamic link: tutorial_dynamic_pipeline ----
    links,          \* peers of convert's sink pad: indices of the linked source pads
    pad_log,        \* one record per pad-added notification: what the callback did
    link_panicked,  \* the callback panicked (an expect on a missing value)
    asm,            \* tutorial_dynamic_pipeline: "init" | "playing" | "aborted" | "failed"
    static_linked,  \* convert, resample and sink are linked
    \* ---- Run: the tutorial and its main thread ----
    tut,            \* the tutorial function that runs
    gdk,            \* a Gdk backend feature is compiled in (tutorial_guikit)
    pc,             \* "init" | "loop" | "relock" | "teardown" | "unwatch" | "done" | "failed"
    quit,           \* main_loop.quit() / gtk::main_quit() was called
    watch,          \* a bus watch (add_watch / add_signal_watch) is registered
    is_live,        \* tutorial_streaming: the Playing request answered NoPreroll
    \* ---- Run: tutorial_queue's CustomData ----
    playing,
    seek_enabled,
    seek_done,
    duration,       \* Option<ClockTime>: {} is NONE, {d} is Some(d seconds)
    \* ---- Run: the graph and its bus ----
    gstate,         \* lifecycle state: "Null" | "Ready" | "Paused" | "Playing"
    pending,        \* target of the transition in progress: {} or {state}
    bus,            \* the messages posted and not yet popped, oldest first
    media_duration, \* what query_duration answers: {} is None, {d} is Some(d seconds)
    handled,        \* {} or {the message the handler got last, with what it did}
    \* ---- Run: history, read by the properties and the bounds only ----
    posted,         \* messages posted by the nodes so far
    clicks,         \* button clicks so far
    error_handled,  \* an Error message was given to the tutorial's handler
    error_logged,   \* the handler logged (or printed) an Error message
    seen_ready,     \* the graph was in Ready since it last left Null
    seen_paused,    \* ... and then in Paused
    teardown_from,  \* {} or {<<state, pending>>} at the tutorial's Null request
    last_result,    \* answer to the last state request
    fail_cause,     \* what made tutorial_queue return Err: "-" | "position" | "flush" | "seek"
    seek_at,        \* the positions at which tutorial_queue called seek_simple
    \* ---- Drain: the appsink and its new_sample callback ----
    dr_tut,         \* whose callback: "shortcut" | "preview"
    dr_alive,       \* the Arc<Mutex<CustomData>> the callback's Weak points to is alive
    sink_started,   \* the appsink is started: pull_sample can return a sample
    sink_queue,     \* samples queued in the appsink
    dr_pc,          \* new_sample callback: "idle" | "called"
    dr_calls,       \* invocations of the callback so far
    dr_pull_calls,  \* pull_sample calls of the running (or last) invocation
    dr_pulled,      \* samples obtained by the running (or last) invocation
    dr_ret,         \* what the last invocation returned: "-" | "Ok" | "Err"
    \* ---- Speed: tutorial_playback_speed ----
    sp_pc,          \* "init" | "loop" | "teardown" | "done" | "failed"
    sp_playing,     \* the closure's `playing`
    sp_rate,        \* the closure's `rate`, an f64: [neg, exp] is -2^exp or 2^exp
    sp_seek,        \* {} or {the seek event sent last, with the position queried}
    sp_step,        \* {} or {the Step event sent last}
    sp_cmds,        \* commands received so far
    \* ---- Tags: tutorial_guikit's stream information ----
    tg_pc,          \* "loop" (gtk::main runs) | "done"
    tg_tags,        \* the stream kinds playbin has tags for
    tg_bus,         \* names of the Application messages on the bus, oldest first
    textbuf,        \* the text buffer of streams_list: the kinds it lists, in order
    tg_signals,     \* tags-changed signal callbacks run so far
    tg_others,      \* Application messages of another name posted so far
    tg_delivered,   \* "tags-changed" messages given to the application handler
    tg_writes,      \* times analyze_streams rewrote the text buffer
    \* ---- Discover: tutorial_media_info ----
    dc_pc,          \* "init" | "running" | "discovered" | "finished" | "done" | "failed"
    dc_started,     \* discoverer.start() was called and stop() was not
    dc_info,        \* {} or {the DiscovererInfo given to on_discovered}
    dc_report,      \* what on_discovered logged, line by line
    \* ---- Flow: new_sample beside the feeder's callbacks ----
    pc_sample,      \* new_sample: "idle" | "locked" | "pull"
    \* ---- Slider: the seek bar of tutorial_guikit ----
    sl_value,       \* the value of the gtk::Scale, in seconds
    sl_upper,       \* the upper end of its range
    sl_blocked,     \* whether the value-changed handler is blocked
    sl_seeks,       \* the seek_simple calls made: <<[by, value]>>
    \* ---- Weak: callbacks that hold a Weak to what they work on ----
    wk_data,        \* the Arc<Mutex<CustomData>> of tutorial_shortcut_pipeline is alive
    wk_pipeline,    \* the playbin of tutorial_guikit is alive
    wk_list,        \* the streams_list text view of tutorial_guikit is alive
    wk_source_id,   \* CustomData.source_id: {} is None
    wk_chunks,      \* chunks generated (num_samples / 512)
    wk_task,        \* the idle source of the generation closure is attached
    wk_pulls,       \* pull_sample calls made by new_sample
    wk_writes,      \* analyze_streams calls made by the application handler
    wk_last,        \* the last callback: [cb, upgraded, ret]
    wk_skipped,     \* the callbacks that have returned on a failed upgrade
    wk_calls        \* callbacks invoked so far

feederVars ==
    <<source_id, num_samples, sources, next_id, mutex, pc_need, pc_enough,
      pc_task, task_id, buffer, push_ok, panicked, stopped, disp_since_stop,
      gen_since_stop, push_since_stop, chunks, last_chunk, dur_sum>>

linkVars ==
    <<links, pad_log, link_panicked, asm, static_linked>>

progVars ==
    <<tut, gdk, pc, quit, watch, is_live>>

queueVars ==
    <<playing, seek_enabled, seek_done, duration>>

graphVars ==
    <<gstate, pending, seen_ready, seen_paused>>

histVars ==
    <<posted, clicks, error_handled, error_logged, teardown_from, last_result>>

runVars ==
    <<progVars, queueVars, graphVars, bus, media_duration, handled, histVars,
      fail_cause, seek_at>>

drainVars ==
    <<dr_tut, dr_alive, sink_started, sink_queue, dr_pc, dr_calls,
      dr_pull_calls, dr_pulled, dr_ret>>

speedVars ==
    <<sp_pc, sp_playing, sp_rate, sp_seek, sp_step, sp_cmds>>

tagVars ==
    <<tg_pc, tg_tags, tg_bus, textbuf, tg_signals, tg_others, tg_delivered,
      tg_writes>>

discoverVars ==
    <<dc_pc, dc_started, dc_info, dc_report>>

flowVars ==
    <<pc_sample>>

sliderVars ==
    <<sl_value, sl_upper, sl_blocked, sl_seeks>>

weakVars ==
    <<wk_data, wk_pipeline, wk_list, wk_source_id, wk_chunks, wk_task,
      wk_pulls, wk_writes, wk_last, wk_skipped, wk_calls>>

vars ==
    <<feederVars, linkVars, runVars, drainVars, speedVars, tagVars,
      discoverVars, flowVars, sliderVars, weakVars>>

\* What the actions of one specification leave alone.
notFeeder ==
    <<linkVars, runVars, drainVars, speedVars, tagVars, discoverVars, flowVars, sliderVars, weakVars>>

notLink ==
    <<feederVars, runVars, drainVars, speedVars, tagVars, discoverVars, flowVars, sliderVars, weakVars>>

notRun ==
    <<feederVars, linkVars, drainVars, speedVars, tagVars, discoverVars, flowVars, sliderVars, weakVars>>

notDrain ==
    <<feederVars, linkVars, runVars, speedVars, tagVars, discoverVars, flowVars, sliderVars, weakVars>>

notDiscover ==
    <<feederVars, linkVars, runVars, drainVars, speedVars, tagVars, flowVars, sliderVars, weakVars>>

\* What new_sample's steps leave alone (they take the feeder's mutex).
notFlow ==
    <<linkVars, runVars, drainVars, speedVars, tagVars,
      discoverVars, sliderVars, weakVars>>

notSlider ==
    <<feederVars, linkVars, runVars, drainVars, speedVars, tagVars,
      discoverVars, flowVars, weakVars>>

notWeak ==
    <<feederVars, linkVars, runVars, drainVars, speedVars, tagVars,
      discoverVars, flowVars, sliderVars>>

notTags ==
    <<feederVars, linkVars, runVars, drainVars, speedVars, discoverVars, flowVars, sliderVars, weakVars>>

\* tutorial_playback_speed drives the graph and nothing else of the run.
notSpeed ==
    <<feederVars, linkVars, drainVars, progVars, queueVars, bus, media_duration,
      handled, histVars, fail_cause, seek_at, tagVars, discoverVars, flowVars, sliderVars, weakVars>>

(***************************************************************************)
(* Feeder                                                                  *)
(***************************************************************************)

\* ClockTime::mul_div_floor(val, num, denom) = floor(val * num / denom).
\* The product is split so that no intermediate exceeds 32 bits:
\* val = q * denom + r gives floor(val*num/denom) = q*num + floor(r*num/denom).
MulDivFloor(val, num, denom) ==
    (val \div denom) * num + ((val % denom) * num) \div denom

\* let num_samples = CHUNK_SIZE / 2; /* Each sample is 16 bits */
ChunkSamples ==
    CHUNK_SIZE \div 2

\* A pts computed by dividing first: (SECOND / SAMPLE_RATE) * samples.
ChunkPts_DivideFirst(samples) ==
    (SECOND \div SAMPLE_RATE) * samples

\* let pts = gst::ClockTime::SECOND.mul_div_floor(data.num_samples, SAMPLE_RATE)
ChunkPts(samples) ==
    MulDivFloor(SECOND, samples, SAMPLE_RATE)

\* A duration rounded up instead of down.
ChunkDuration_RoundedUp ==
    MulDivFloor(SECOND, ChunkSamples, SAMPLE_RATE) + 1

\* let duration = gst::ClockTime::SECOND.mul_div_floor(num_samples, SAMPLE_RATE)
ChunkDuration ==
    MulDivFloor(SECOND, ChunkSamples, SAMPLE_RATE)

\* A counter that advances by the bytes of a chunk.
SamplesAfterChunk_Bytes(samples) ==
    samples + CHUNK_SIZE

\* data.num_samples += num_samples as u64;
SamplesAfterChunk(samples) ==
    samples + ChunkSamples

Sat2(n) ==
    IF n >= 2 THEN 2 ELSE n + 1

InitFeeder ==
    /\ source_id = {}
    /\ num_samples = 0
    /\ sources = {}
    /\ next_id = 1
    /\ mutex = "free"
    /\ pc_need = "idle"
    /\ pc_enough = "idle"
    /\ pc_task = "idle"
    /\ task_id = {}
    /\ buffer = <<>>
    /\ push_ok = TRUE
    /\ panicked = FALSE
    /\ stopped = FALSE
    /\ disp_since_stop = FALSE
    /\ gen_since_stop = 0
    /\ push_since_stop = 0
    /\ chunks = 0
    /\ last_chunk = <<>>
    /\ dur_sum = 0

\* need_data is invoked and takes the lock: let mut d = data.lock().unwrap();
NeedDataEnter ==
    /\ UNCHANGED notFeeder
    /\ UNCHANGED <<chunks, last_chunk, dur_sum>>
    /\ ~panicked
    /\ pc_need = "idle"
    /\ mutex = "free"
    /\ next_id <= MaxSources
    /\ mutex' = "need"
    /\ pc_need' = "locked"
    /\ stopped' = FALSE
    /\ UNCHANGED <<source_id, num_samples, sources, next_id, pc_enough, pc_task,
                   task_id, buffer, push_ok, panicked, disp_since_stop,
                   gen_since_stop, push_since_stop>>

\* need_data with the is_none() check left out: always attaches a new source.
NeedDataBody_NoCheck ==
    /\ UNCHANGED notFeeder
    /\ UNCHANGED <<chunks, last_chunk, dur_sum>>
    /\ ~panicked
    /\ pc_need = "locked"
    /\ source_id' = {next_id}
    /\ sources' = sources \cup {next_id}
    /\ next_id' = next_id + 1
    /\ mutex' = "free"
    /\ pc_need' = "idle"
    /\ UNCHANGED <<num_samples, pc_enough, pc_task, task_id, buffer, push_ok,
                   panicked, stopped, disp_since_stop, gen_since_stop,
                   push_since_stop>>

\* if d.source_id.is_none() { d.source_id = Some(glib::source::idle_add(..)) }
\* and the guard is dropped on return.
NeedDataBody ==
    /\ UNCHANGED notFeeder
    /\ UNCHANGED <<chunks, last_chunk, dur_sum>>
    /\ ~panicked
    /\ pc_need = "locked"
    /\ IF source_id = {}
         THEN /\ source_id' = {next_id}
              /\ sources' = sources \cup {next_id}
              /\ next_id' = next_id + 1
         ELSE UNCHANGED <<source_id, sources, next_id>>
    /\ mutex' = "free"
    /\ pc_need' = "idle"
    /\ UNCHANGED <<num_samples, pc_enough, pc_task, task_id, buffer, push_ok,
                   panicked, stopped, disp_since_stop, gen_since_stop,
                   push_since_stop>>

\* enough_data is invoked and takes the lock: let mut data = data.lock().unwrap();
EnoughDataEnter ==
    /\ UNCHANGED notFeeder
    /\ UNCHANGED <<chunks, last_chunk, dur_sum>>
    /\ ~panicked
    /\ pc_enough = "idle"
    /\ mutex = "free"
    /\ mutex' = "enough"
    /\ pc_enough' = "locked"
    /\ UNCHANGED <<source_id, num_samples, sources, next_id, pc_need, pc_task,
                   task_id, buffer, push_ok, panicked, stopped, disp_since_stop,
                   gen_since_stop, push_since_stop>>

\* enough_data that takes the id but never calls source.remove().
EnoughDataBody_NoRemove ==
    /\ UNCHANGED notFeeder
    /\ UNCHANGED <<chunks, last_chunk, dur_sum>>
    /\ ~panicked
    /\ pc_enough = "locked"
    /\ source_id' = {}
    /\ mutex' = "free"
    /\ pc_enough' = "idle"
    /\ stopped' = TRUE
    /\ disp_since_stop' = FALSE
    /\ gen_since_stop' = 0
    /\ push_since_stop' = 0
    /\ UNCHANGED <<num_samples, sources, next_id, pc_need, pc_task, task_id,
                   buffer, push_ok, panicked>>

\* if let Some(source) = data.source_id.take() { source.remove(); }
\* SourceId::remove() unwraps the result of g_source_remove: removing an id
\* that is no longer attached panics, inside the callback, with the guard held.
EnoughDataBody ==
    /\ UNCHANGED notFeeder
    /\ UNCHANGED <<chunks, last_chunk, dur_sum>>
    /\ ~panicked
    /\ pc_enough = "locked"
    /\ source_id' = {}
    /\ IF source_id = {}
         THEN UNCHANGED <<sources, panicked>>
         ELSE IF source_id \subseteq sources
                THEN /\ sources' = sources \ source_id
                     /\ UNCHANGED panicked
                ELSE /\ panicked' = TRUE
                     /\ UNCHANGED sources
    /\ mutex' = "free"
    /\ pc_enough' = "idle"
    /\ stopped' = TRUE
    /\ disp_since_stop' = FALSE
    /\ gen_since_stop' = 0
    /\ push_since_stop' = 0
    /\ UNCHANGED <<num_samples, next_id, pc_need, pc_task, task_id, buffer,
                   push_ok>>

\* The main loop dispatches an attached idle source: its closure starts.
\* One main loop thread: one activation at a time.
TaskDispatch ==
    /\ UNCHANGED notFeeder
    /\ UNCHANGED <<chunks, last_chunk, dur_sum>>
    /\ ~panicked
    /\ pc_task = "idle"
    /\ chunks < MaxChunks
    /\ \E s \in sources :
         task_id' = {s}
    /\ pc_task' = "start"
    /\ disp_since_stop' = (disp_since_stop \/ stopped)
    /\ UNCHANGED <<source_id, num_samples, sources, next_id, mutex, pc_need,
                   pc_enough, buffer, push_ok, panicked, stopped,
                   gen_since_stop, push_since_stop>>

\* let mut data = data.lock().unwrap();   (line 1161)
TaskLock ==
    /\ UNCHANGED notFeeder
    /\ UNCHANGED <<chunks, last_chunk, dur_sum>>
    /\ ~panicked
    /\ pc_task = "start"
    /\ mutex = "free"
    /\ mutex' = "task"
    /\ pc_task' = "locked"
    /\ UNCHANGED <<source_id, num_samples, sources, next_id, pc_need, pc_enough,
                   task_id, buffer, push_ok, panicked, stopped, disp_since_stop,
                   gen_since_stop, push_since_stop>>

\* Under the lock: the buffer of CHUNK_SIZE bytes, its pts and duration, the
\* waveform (payload, not modelled), num_samples += 512; the guard is dropped
\* at the end of the block.
TaskGenerate ==
    /\ UNCHANGED notFeeder
    /\ ~panicked
    /\ pc_task = "locked"
    /\ buffer' = <<[pts |-> ChunkPts(num_samples), duration |-> ChunkDuration]>>
    /\ last_chunk' = buffer'
    /\ chunks' = chunks + 1
    /\ dur_sum' = dur_sum + ChunkDuration
    /\ num_samples' = SamplesAfterChunk(num_samples)
    /\ mutex' = "free"
    /\ pc_task' = "push"
    /\ gen_since_stop' = (IF stopped THEN Sat2(gen_since_stop) ELSE gen_since_stop)
    /\ UNCHANGED <<source_id, sources, next_id, pc_need, pc_enough, task_id,
                   push_ok, panicked, stopped, disp_since_stop, push_since_stop>>

\* appsrc.push_buffer(buffer): accepted, or refused (flushing, end of stream).
TaskPush ==
    /\ UNCHANGED notFeeder
    /\ UNCHANGED <<chunks, last_chunk, dur_sum>>
    /\ ~panicked
    /\ pc_task = "push"
    /\ \E ok \in BOOLEAN :
         push_ok' = ok
    /\ pc_task' = "ret"
    /\ push_since_stop' = (IF stopped THEN Sat2(push_since_stop) ELSE push_since_stop)
    /\ UNCHANGED <<source_id, num_samples, sources, next_id, mutex, pc_need,
                   pc_enough, task_id, buffer, panicked, stopped,
                   disp_since_stop, gen_since_stop>>

\* glib::Continue(push_ok): on Continue(false) the main loop destroys the
\* source (if enough_data has not removed it already). source_id is untouched.
TaskReturn ==
    /\ UNCHANGED notFeeder
    /\ UNCHANGED <<chunks, last_chunk, dur_sum>>
    /\ ~panicked
    /\ pc_task = "ret"
    /\ sources' = (IF push_ok THEN sources ELSE sources \ task_id)
    /\ task_id' = {}
    /\ buffer' = <<>>
    /\ pc_task' = "idle"
    /\ UNCHANGED <<source_id, num_samples, next_id, mutex, pc_need, pc_enough,
                   push_ok, panicked, stopped, disp_since_stop, gen_since_stop,
                   push_since_stop>>

FeederNext ==
    \/ NeedDataEnter
    \/ NeedDataBody
    \/ EnoughDataEnter
    \/ EnoughDataBody
    \/ TaskDispatch
    \/ TaskLock
    \/ TaskGenerate
    \/ TaskPush
    \/ TaskReturn

(***************************************************************************)
(* Dynamic link: the pad-added callback                                    *)
(***************************************************************************)

\* Caps structure names, as character sequences.
AudioRaw ==
    <<"a", "u", "d", "i", "o", "/", "x", "-", "r", "a", "w">>

AudioRawInt ==
    AudioRaw \o <<"-", "i", "n", "t">>

AudioXRa ==
    SubSeq(AudioRaw, 1, Len(AudioRaw) - 1)

AudioMpeg ==
    <<"a", "u", "d", "i", "o", "/", "m", "p", "e", "g">>

VideoRaw ==
    <<"v", "i", "d", "e", "o", "/", "x", "-", "r", "a", "w">>

\* The names a new pad of the source node may carry.
PadTypes ==
    {AudioRaw, AudioRawInt, AudioXRa, AudioMpeg, VideoRaw}

\* str::starts_with
StartsWith(str, prefix) ==
    /\ Len(str) >= Len(prefix)
    /\ SubSeq(str, 1, Len(prefix)) = prefix

\* A predicate that accepts every audio type, raw or not.
IsAudio_AnyAudio(new_pad_type) ==
    StartsWith(new_pad_type, SubSeq(AudioRaw, 1, 5))

\* let is_audio = new_pad_type.starts_with("audio/x-raw");
IsAudio(new_pad_type) ==
    StartsWith(new_pad_type, AudioRaw)

\* sink_pad.is_linked()
IsLinked ==
    links # {}

\* The callback without the early return on an already linked sink pad.
AlreadyLinkedReturn_Never ==
    FALSE

\* if sink_pad.is_linked() { log::info!("We are already linked."); return; }
AlreadyLinkedReturn ==
    IsLinked

\* src_pad.link(&sink_pad): the framework refuses a sink pad that has a peer,
\* and may refuse an unlinked one (accepts says which).
PadLinkOk(accepts) ==
    ~IsLinked /\ accepts

InitLink ==
    /\ links = {}
    /\ pad_log = <<>>
    /\ link_panicked = FALSE
    /\ asm = "init"
    /\ static_linked = FALSE

\* One pad-added notification: the whole callback. The new pad is the
\* (Len(pad_log) + 1)-th pad of the source node; has_caps says whether
\* current_caps() is Some, type is its first structure's name, accepts is the
\* framework's answer to a link request on an unlinked sink pad.
PadAdded ==
    /\ UNCHANGED notLink
    /\ UNCHANGED <<asm, static_linked>>
    /\ asm = "playing"
    /\ ~link_panicked
    /\ Len(pad_log) < MaxPads
    /\ \E type \in PadTypes, has_caps \in BOOLEAN, accepts \in BOOLEAN :
         LET pad == Len(pad_log) + 1
             entry(outcome) == [type |-> type, has_caps |-> has_caps,
                                was_linked |-> IsLinked, outcome |-> outcome]
         IN  IF AlreadyLinkedReturn
               THEN /\ pad_log' = Append(pad_log, entry("already"))
                    /\ UNCHANGED <<links, link_panicked>>
             ELSE IF ~has_caps
               THEN /\ pad_log' = Append(pad_log, entry("panic"))
                    /\ link_panicked' = TRUE
                    /\ UNCHANGED links
             ELSE IF ~IsAudio(type)
               THEN /\ pad_log' = Append(pad_log, entry("ignored"))
                    /\ UNCHANGED <<links, link_panicked>>
             ELSE IF PadLinkOk(accepts)
               THEN /\ pad_log' = Append(pad_log, entry("linked"))
                    /\ links' = links \cup {pad}
                    /\ UNCHANGED link_panicked
             ELSE /\ pad_log' = Append(pad_log, entry("failed"))
                  /\ UNCHANGED <<links, link_panicked>>

\* An assembly that goes on after a failed static link.
AfterStaticLink_Ignored(ok) ==
    "linked"

\* gst::Element::link_many(&[&convert, &resample, &sink])
\*     .context("Elements could not be linked.")?;
AfterStaticLink(ok) ==
    IF ok THEN "linked" ELSE "aborted"

\* The assembly of tutorial_dynamic_pipeline up to the Playing request: the
\* static links (ok says whether the framework made them), the registration
\* of the pad-added callback, set_state(Playing) with ? (started says
\* whether the request was accepted). The source node emits pad-added only
\* once the graph was started.
Assemble ==
    /\ UNCHANGED notLink
    /\ asm = "init"
    /\ \E ok \in BOOLEAN, started \in BOOLEAN :
         /\ static_linked' = ok
         /\ asm' = (IF AfterStaticLink(ok) = "aborted"
                      THEN "aborted"
                      ELSE IF started THEN "playing" ELSE "failed")
    /\ UNCHANGED <<links, pad_log, link_panicked>>

LinkNext ==
    \/ Assemble
    \/ PadAdded

(***************************************************************************)
(* Run: the graph's lifecycle and its bus.                                 *)
(* set_state and the bus belong to the media framework; what they do is    *)
(* taken from sections 3, 4.3 and 4.4 of the specification.                *)
(***************************************************************************)

States ==
    {"Null", "Ready", "Paused", "Playing"}

\* Unset < Ready < Paused < Active
Rank(st) ==
    CASE st = "Null" -> 0
      [] st = "Ready" -> 1
      [] st = "Paused" -> 2
      [] st = "Playing" -> 3

StateOfRank(r) ==
    CHOOSE st \in States : Rank(st) = r

\* A transition that jumps to its target at once.
StepToward_Jump(cur, target) ==
    target

\* One step of a transition: the neighbour of cur on the way to target.
StepToward(cur, target) ==
    IF Rank(target) > Rank(cur)
      THEN StateOfRank(Rank(cur) + 1)
      ELSE StateOfRank(Rank(cur) - 1)

\* The answers a state request may get: a teardown always succeeds, a
\* request of Paused or Playing may report that no pre-roll is available.
Results(target) ==
    IF target = "Null"
      THEN {"Success"}
      ELSE IF target \in {"Paused", "Playing"}
             THEN {"Success", "Async", "NoPreroll", "Failure"}
             ELSE {"Success", "Async", "Failure"}

\* set_state(target) answered with result. A teardown resets the graph
\* directly; any other accepted request leaves a transition in progress,
\* which StateStep carries out one state at a time (a request answered
\* Success whose steps the caller waits for is the interleaving in which
\* they come before the caller's next step). A refused request starts none.
SetState(target, result) ==
    IF target = "Null"
      THEN /\ gstate' = "Null"
           /\ pending' = {}
           /\ seen_ready' = FALSE
           /\ seen_paused' = FALSE
      ELSE /\ pending' = (IF result = "Failure" \/ target = gstate
                            THEN {}
                            ELSE {target})
           /\ UNCHANGED <<gstate, seen_ready, seen_paused>>

Msg(kind, src, old, cur, percent) ==
    [kind |-> kind, src |-> src, old |-> old, cur |-> cur, percent |-> percent]

\* What the nodes of the graph post on their own. A StateChanged of the
\* graph itself is posted by StateStep. src "none" is a message without a
\* source.
NodeMessages ==
    {Msg("Error", "source", "-", "-", 0),
     Msg("Eos", "pipeline", "-", "-", 0),
     Msg("StateChanged", "sink", "Paused", "Playing", 0),
     Msg("StateChanged", "none", "Paused", "Playing", 0),
     Msg("DurationChanged", "source", "-", "-", 0),
     Msg("Buffering", "source", "-", "-", 29),
     Msg("Buffering", "source", "-", "-", 30),
     Msg("Buffering", "source", "-", "-", 100),
     Msg("ClockLost", "pipeline", "-", "-", 0),
     Msg("Other", "source", "-", "-", 0)}

\* The dispatcher still runs (or is about to): what is posted will be read.
Listening ==
    pc \in {"init", "loop"}

\* The transition in progress advances by one state and the graph posts its
\* StateChanged.
StateStep ==
    /\ UNCHANGED notRun
    /\ UNCHANGED fail_cause
    /\ UNCHANGED seek_at
    /\ UNCHANGED media_duration
    /\ UNCHANGED handled
    /\ pending # {}
    /\ Len(bus) < MaxBus
    /\ \E target \in pending :
         LET new == StepToward(gstate, target)
         IN  /\ gstate' = new
             /\ pending' = (IF new = target THEN {} ELSE pending)
             /\ seen_ready' = (seen_ready \/ new = "Ready")
             /\ seen_paused' = (seen_paused \/ (new = "Paused" /\ seen_ready))
             /\ bus' = (IF Listening
                          THEN Append(bus, Msg("StateChanged", "pipeline", gstate, new, 0))
                          ELSE bus)
    /\ UNCHANGED <<progVars, queueVars, histVars>>

\* The durations, in seconds, the media may have.
Durations ==
    {60, 90}

\* A node of the running graph posts a message. The duration the graph
\* answers changes with a DurationChanged.
PostMessage ==
    /\ UNCHANGED notRun
    /\ UNCHANGED fail_cause
    /\ UNCHANGED seek_at
    /\ UNCHANGED handled
    /\ Listening
    /\ gstate # "Null" \/ pending # {}
    /\ posted < MaxPosted
    /\ Len(bus) < MaxBus
    /\ \E m \in NodeMessages, d \in Durations :
         /\ bus' = Append(bus, m)
         /\ media_duration' = (IF m.kind = "DurationChanged" THEN {d} ELSE media_duration)
    /\ posted' = posted + 1
    /\ UNCHANGED <<progVars, queueVars, graphVars, clicks, error_handled,
                   error_logged, teardown_from, last_result>>

(***************************************************************************)
(* Run: the tutorials                                                      *)
(***************************************************************************)

\* for msg in bus.iter_timed(gst::ClockTime::NONE) with Eos and Error => break
SimpleBlocking ==
    {"helloworld", "concept"}

\* the same loop, with a filtered report of the graph's StateChanged:
\* tutorial_dynamic_pipeline, tutorial_media_pad
FilterBlocking ==
    {"dynamic", "mediapad"}

Blocking ==
    SimpleBlocking \cup FilterBlocking

\* the main loop runs, with a watch on the bus
WatchMode ==
    {"guikit", "shortcut", "streaming"}

RunTutorials ==
    Blocking \cup {"queue"} \cup WatchMode

\* A filter that lets the StateChanged of every node through.
FromGraph_Any(msg) ==
    TRUE

\* state_changed.src().map(|s| s == pipeline).unwrap_or(false)
FromGraph(msg) ==
    msg.src # "none" /\ msg.src = "pipeline"

\* An end of stream handled with a teardown.
EosTarget_Null ==
    "Null"

\* Eos: pipeline.set_state(gst::State::Ready)
EosTarget ==
    "Ready"

\* A threshold that still pauses at exactly 30 percent.
BufferingTarget_Inclusive(percent) ==
    IF percent <= BufferingThreshold THEN "Paused" ELSE "Playing"

\* if percent < 30 { set_state(Paused) } else { set_state(Playing) }
BufferingTarget(percent) ==
    IF percent < BufferingThreshold THEN "Paused" ELSE "Playing"

\* A buffering handler without the test of is_live.
BufferingApplies_Always(live) ==
    TRUE

\* if is_live { return glib::Continue(true); }
BufferingApplies(live) ==
    ~live

\* A loop that queries the duration at every turn.
DurationAfterUse_Always(cache, answer) ==
    answer

\* if custom_data.duration == gst::ClockTime::NONE {
\*     custom_data.duration = custom_data.playbin.query_duration(); }
DurationAfterUse(cache, answer) ==
    IF cache = {} THEN answer ELSE cache

\* A pop that hands out the message posted last.
BusFront_Newest(b) ==
    b[Len(b)]

\* The message a pop (timed_pop, iter_timed, the bus watch) hands out: the
\* oldest one.
BusFront(b) ==
    Head(b)

\* The bus after the pop.
BusRest(b) ==
    Tail(b)

\* Periodic work on every wake-up.
PollingDue_Always(flag) ==
    TRUE

\* None => { if custom_data.playing { .. } }
PollingDue(flag) ==
    flag

\* What a handler did with a message: the state it requested ("-" for none)
\* and whether it took the message for a state change of the graph itself.
Handled(msg, requested, acted) ==
    {[kind |-> msg.kind, src |-> msg.src, percent |-> msg.percent,
      requested |-> requested, acted |-> acted]}

\* A tutorial that tears down with a request of Ready.
TeardownTarget_Ready ==
    "Ready"

\* pipeline.set_state(gst::State::Null)
TeardownTarget ==
    "Null"

InitRun(t) ==
    /\ tut = t
    /\ pc = "init"
    /\ quit = FALSE
    /\ watch = FALSE
    /\ is_live = FALSE
    /\ playing = FALSE
    /\ seek_enabled = FALSE
    /\ seek_done = FALSE
    /\ duration = {}
    /\ gstate = "Null"
    /\ pending = {}
    /\ bus = <<>>
    /\ media_duration = {}
    /\ handled = {}
    /\ posted = 0
    /\ clicks = 0
    /\ error_handled = FALSE
    /\ error_logged = FALSE
    /\ seen_ready = FALSE
    /\ seen_paused = FALSE
    /\ teardown_from = {}
    /\ last_result = "-"
    /\ fail_cause = "-"
    /\ seek_at = <<>>

\* pipeline.set_state(gst::State::Playing), after the graph is assembled.
\* tutorial_guikit and tutorial_shortcut_pipeline have added their signal
\* watch before, and panic on a refusal (expect); tutorial_streaming adds its
\* watch after, and like the blocking tutorials returns the error (?);
\* tutorial_media_pad only logs a refusal and enters its loop.
StartPlaying ==
    /\ UNCHANGED notRun
    /\ UNCHANGED fail_cause
    /\ UNCHANGED seek_at
    /\ UNCHANGED media_duration
    /\ UNCHANGED handled
    /\ pc = "init"
    /\ tut \in RunTutorials
    /\ tut = "guikit" => gdk
    /\ \E result \in Results("Playing") :
         /\ SetState("Playing", result)
         /\ last_result' = result
         /\ pc' = (IF result = "Failure" /\ tut # "mediapad" THEN "failed" ELSE "loop")
         /\ watch' = (\/ tut \in {"guikit", "shortcut"}
                      \/ (tut = "streaming" /\ result # "Failure"))
         /\ is_live' = (tut = "streaming" /\ result = "NoPreroll")
    /\ UNCHANGED <<tut, gdk, quit, queueVars, bus, posted, clicks, error_handled,
                   error_logged, teardown_from>>

\* tutorial_guikit::run without a Gdk backend feature: prints and returns.
GuikitNoBackend ==
    /\ UNCHANGED notRun
    /\ UNCHANGED fail_cause
    /\ UNCHANGED seek_at
    /\ UNCHANGED media_duration
    /\ UNCHANGED handled
    /\ pc = "init"
    /\ tut = "guikit"
    /\ ~gdk
    /\ pc' = "done"
    /\ UNCHANGED <<tut, gdk, quit, watch, is_live, queueVars, graphVars, bus,
                   histVars>>

\* One iteration of the loops of tutorial_helloworld, tutorial_concept,
\* tutorial_dynamic_pipeline and tutorial_media_pad.
DispatchSimple ==
    /\ UNCHANGED notRun
    /\ UNCHANGED fail_cause
    /\ UNCHANGED seek_at
    /\ UNCHANGED media_duration
    /\ pc = "loop"
    /\ tut \in Blocking
    /\ bus # <<>>
    /\ LET msg == BusFront(bus)
       IN  /\ bus' = BusRest(bus)
           /\ handled' = Handled(msg, "-", /\ tut \in FilterBlocking
                                           /\ msg.kind = "StateChanged"
                                           /\ FromGraph(msg))
           /\ error_handled' = (error_handled \/ msg.kind = "Error")
           /\ error_logged' = (error_logged \/ msg.kind = "Error")
           /\ pc' = (IF msg.kind \in {"Eos", "Error"} THEN "teardown" ELSE "loop")
    /\ UNCHANGED <<tut, gdk, quit, watch, is_live, queueVars, graphVars, posted,
                   clicks, teardown_from, last_result>>

\* handle_message of tutorial_queue, and the loop's test of terminate after
\* it. With terminate set the loop ends and the function returns Ok(()).
\* seeking is the answer to the Seeking query: "failed", "seekable" or "fixed".
QueueDispatch ==
    /\ UNCHANGED notRun
    /\ UNCHANGED fail_cause
    /\ UNCHANGED seek_at
    /\ UNCHANGED media_duration
    /\ pc = "loop"
    /\ tut = "queue"
    /\ bus # <<>>
    /\ LET msg == BusFront(bus)
           fromPlaybin == msg.kind = "StateChanged" /\ FromGraph(msg)
       IN  /\ bus' = BusRest(bus)
           /\ handled' = Handled(msg, "-", fromPlaybin)
           /\ error_handled' = (error_handled \/ msg.kind = "Error")
           /\ error_logged' = (error_logged \/ msg.kind = "Error")
           /\ pc' = (IF msg.kind \in {"Eos", "Error"} THEN "done" ELSE "loop")
           /\ duration' = (IF msg.kind = "DurationChanged" THEN {} ELSE duration)
           /\ playing' = (IF fromPlaybin THEN msg.cur = "Playing" ELSE playing)
           /\ \E seeking \in {"failed", "seekable", "fixed"} :
                seek_enabled' = (IF fromPlaybin /\ msg.cur = "Playing" /\ seeking # "failed"
                                   THEN seeking = "seekable"
                                   ELSE seek_enabled)
    /\ UNCHANGED <<tut, gdk, quit, watch, is_live, seek_done, graphVars, posted,
                   clicks, teardown_from, last_result>>

\* A seek condition that forgets that the seek was already done.
SeekDue_Again(enabled, done, position) ==
    enabled /\ position > SeekAfterSeconds

\* The condition of the one automatic seek of tutorial_queue.
SeekDue(enabled, done, position) ==
    enabled /\ ~done /\ position > SeekAfterSeconds

\* timed_pop returned None: the periodic work of tutorial_queue's loop.
\* position is the answer to query_position (0 for None, else seconds),
\* answered whether query_duration got an answer from the graph, flushed and
\* seeked whether the flush of stdout and the seek succeeded. A failure of
\* the position query, the flush or the seek returns Err.
QueueTimeout ==
    /\ UNCHANGED notRun
    /\ UNCHANGED media_duration
    /\ UNCHANGED handled
    /\ pc = "loop"
    /\ tut = "queue"
    /\ bus = <<>>
    /\ IF ~PollingDue(playing)
         THEN UNCHANGED <<pc, fail_cause, duration, seek_done, seek_at>>
         ELSE \E position \in {0, 1, 3, 4}, answered \in BOOLEAN,
                 flushed \in BOOLEAN, seeked \in BOOLEAN :
                IF position = 0
                  THEN /\ pc' = "failed"
                       /\ fail_cause' = "position"
                       /\ UNCHANGED <<duration, seek_done, seek_at>>
                  ELSE /\ duration' = DurationAfterUse(duration,
                                         IF answered THEN media_duration ELSE {})
                       /\ IF ~flushed
                            THEN /\ pc' = "failed"
                                 /\ fail_cause' = "flush"
                                 /\ UNCHANGED <<seek_done, seek_at>>
                            ELSE IF SeekDue(seek_enabled, seek_done, position)
                                   THEN /\ seek_at' = Append(seek_at, position)
                                        /\ IF seeked
                                             THEN /\ seek_done' = TRUE
                                                  /\ UNCHANGED <<pc, fail_cause>>
                                             ELSE /\ pc' = "failed"
                                                  /\ fail_cause' = "seek"
                                                  /\ UNCHANGED seek_done
                                   ELSE UNCHANGED <<pc, fail_cause, seek_done,
                                                    seek_at>>
    /\ UNCHANGED <<tut, gdk, quit, watch, is_live, playing, seek_enabled,
                   graphVars, bus, histVars>>

\* The handler tutorial_guikit::run connects to every message of the bus.
\* Eos requests Ready (expect: a refusal panics); Error only prints.
GuikitDispatch ==
    /\ UNCHANGED notRun
    /\ UNCHANGED fail_cause
    /\ UNCHANGED seek_at
    /\ UNCHANGED media_duration
    /\ pc = "loop"
    /\ tut = "guikit"
    /\ watch
    /\ ~quit
    /\ bus # <<>>
    /\ LET msg == BusFront(bus)
       IN  /\ bus' = BusRest(bus)
           /\ error_handled' = (error_handled \/ msg.kind = "Error")
           /\ error_logged' = (error_logged \/ msg.kind = "Error")
           /\ handled' = Handled(msg, IF msg.kind = "Eos" THEN EosTarget ELSE "-",
                                  msg.kind = "StateChanged" /\ FromGraph(msg))
           /\ IF msg.kind = "Eos"
                THEN \E result \in Results(EosTarget) :
                       /\ SetState(EosTarget, result)
                       /\ last_result' = result
                       /\ pc' = (IF result = "Failure" THEN "failed" ELSE "loop")
                ELSE UNCHANGED <<pc, graphVars, last_result>>
    /\ UNCHANGED <<tut, gdk, quit, watch, is_live, queueVars, posted, clicks,
                   teardown_from>>

\* The play, pause and stop buttons: set_state(Playing | Paused | Ready),
\* with expect.
ButtonClicked ==
    /\ UNCHANGED notRun
    /\ UNCHANGED fail_cause
    /\ UNCHANGED seek_at
    /\ UNCHANGED media_duration
    /\ UNCHANGED handled
    /\ pc = "loop"
    /\ tut = "guikit"
    /\ ~quit
    /\ clicks < MaxClicks
    /\ \E target \in {"Playing", "Paused", "Ready"} :
         \E result \in Results(target) :
           /\ SetState(target, result)
           /\ last_result' = result
           /\ pc' = (IF result = "Failure" THEN "failed" ELSE "loop")
    /\ clicks' = clicks + 1
    /\ UNCHANGED <<tut, gdk, quit, watch, is_live, queueVars, bus, posted,
                   error_handled, error_logged, teardown_from>>

\* main_window.connect_delete_event: gtk::main_quit()
WindowClose ==
    /\ UNCHANGED notRun
    /\ UNCHANGED fail_cause
    /\ UNCHANGED seek_at
    /\ UNCHANGED media_duration
    /\ UNCHANGED handled
    /\ pc = "loop"
    /\ tut = "guikit"
    /\ ~quit
    /\ quit' = TRUE
    /\ UNCHANGED <<tut, gdk, pc, watch, is_live, queueVars, graphVars, bus,
                   histVars>>

\* A watch handler that stops watching once the run is to end.
WatchAfterMessage_StopAtEnd(kind) ==
    kind \notin {"Error", "Eos"}

\* The handler of tutorial_streaming's add_watch ends every branch with
\* glib::Continue(true): the watch stays.
WatchAfterMessage(kind) ==
    TRUE

\* tutorial_shortcut_pipeline connects to "error" messages only: the signal
\* watch pops every message and the handler sees the Error ones.
ShortcutDispatch ==
    /\ UNCHANGED notRun
    /\ UNCHANGED fail_cause
    /\ UNCHANGED seek_at
    /\ UNCHANGED media_duration
    /\ pc = "loop"
    /\ tut = "shortcut"
    /\ watch
    /\ ~quit
    /\ bus # <<>>
    /\ LET msg == BusFront(bus)
       IN  /\ bus' = BusRest(bus)
           /\ error_handled' = (error_handled \/ msg.kind = "Error")
           /\ error_logged' = (error_logged \/ msg.kind = "Error")
           /\ quit' = (msg.kind = "Error")
           /\ handled' = (IF msg.kind = "Error"
                            THEN Handled(msg, "-", FALSE)
                            ELSE handled)
    /\ UNCHANGED <<tut, gdk, pc, watch, is_live, queueVars, graphVars, posted,
                   clicks, teardown_from, last_result>>

\* The watch of tutorial_streaming. Every state request's answer is dropped
\* (let _ =). ClockLost requests Paused here and Playing in StreamingRelock.
StreamingDispatch ==
    /\ UNCHANGED notRun
    /\ UNCHANGED fail_cause
    /\ UNCHANGED seek_at
    /\ UNCHANGED media_duration
    /\ pc = "loop"
    /\ tut = "streaming"
    /\ watch
    /\ ~quit
    /\ bus # <<>>
    /\ LET msg == BusFront(bus)
           target == CASE msg.kind = "Eos" -> EosTarget
                       [] msg.kind = "Buffering" -> BufferingTarget(msg.percent)
                       [] OTHER -> "Paused"
           requests == \/ msg.kind \in {"Eos", "ClockLost"}
                       \/ (msg.kind = "Buffering" /\ BufferingApplies(is_live))
       IN  /\ bus' = BusRest(bus)
           /\ handled' = Handled(msg, IF requests THEN target ELSE "-", FALSE)
           /\ error_handled' = (error_handled \/ msg.kind = "Error")
           /\ error_logged' = (error_logged \/ msg.kind = "Error")
           /\ quit' = (msg.kind \in {"Error", "Eos"})
           /\ watch' = WatchAfterMessage(msg.kind)
           /\ pc' = (IF msg.kind = "ClockLost" THEN "relock" ELSE "loop")
           /\ IF requests
                THEN \E result \in Results(target) :
                       /\ SetState(target, result)
                       /\ last_result' = result
                ELSE UNCHANGED <<graphVars, last_result>>
    /\ UNCHANGED <<tut, gdk, is_live, queueVars, posted, clicks, teardown_from>>

\* The second request of the ClockLost branch: set_state(Playing).
StreamingRelock ==
    /\ UNCHANGED notRun
    /\ UNCHANGED fail_cause
    /\ UNCHANGED seek_at
    /\ UNCHANGED media_duration
    /\ UNCHANGED handled
    /\ pc = "relock"
    /\ tut = "streaming"
    /\ \E result \in Results("Playing") :
         /\ SetState("Playing", result)
         /\ last_result' = result
    /\ pc' = "loop"
    /\ UNCHANGED <<tut, gdk, quit, watch, is_live, queueVars, bus, posted, clicks,
                   error_handled, error_logged, teardown_from>>

\* main_loop.run() / gtk::main() returns once quit was called.
LoopExit ==
    /\ UNCHANGED notRun
    /\ UNCHANGED fail_cause
    /\ UNCHANGED seek_at
    /\ UNCHANGED media_duration
    /\ UNCHANGED handled
    /\ pc = "loop"
    /\ tut \in WatchMode
    /\ quit
    /\ pc' = "teardown"
    /\ UNCHANGED <<tut, gdk, quit, watch, is_live, queueVars, graphVars, bus,
                   histVars>>

\* bus.remove_watch() before the Null request (tutorial_streaming);
\* bus.remove_signal_watch() after it (tutorial_guikit,
\* tutorial_shortcut_pipeline), and the function returns.
RemoveWatch ==
    /\ UNCHANGED notRun
    /\ UNCHANGED fail_cause
    /\ UNCHANGED seek_at
    /\ UNCHANGED media_duration
    /\ UNCHANGED handled
    /\ watch
    /\ \/ (tut = "streaming" /\ pc = "teardown" /\ pc' = pc)
       \/ (tut \in {"guikit", "shortcut"} /\ pc = "unwatch" /\ pc' = "done")
    /\ watch' = FALSE
    /\ UNCHANGED <<tut, gdk, quit, is_live, queueVars, graphVars, bus, histVars>>

\* After the loop: pipeline.set_state(gst::State::Null). tutorial_streaming
\* has removed its watch before; tutorial_guikit and
\* tutorial_shortcut_pipeline remove theirs afterwards.
Teardown ==
    /\ UNCHANGED notRun
    /\ UNCHANGED fail_cause
    /\ UNCHANGED seek_at
    /\ UNCHANGED media_duration
    /\ UNCHANGED handled
    /\ pc = "teardown"
    /\ tut = "streaming" => ~watch
    /\ \E result \in Results(TeardownTarget) :
         /\ SetState(TeardownTarget, result)
         /\ last_result' = result
         /\ pc' = (IF result = "Failure"
                     THEN "failed"
                     ELSE IF tut \in {"guikit", "shortcut"} THEN "unwatch" ELSE "done")
    /\ teardown_from' = {<<gstate, pending>>}
    /\ UNCHANGED <<tut, gdk, quit, watch, is_live, queueVars, bus, posted, clicks,
                   error_handled, error_logged>>

RunNext ==
    \/ StateStep
    \/ PostMessage
    \/ StartPlaying
    \/ GuikitNoBackend
    \/ DispatchSimple
    \/ QueueDispatch
    \/ QueueTimeout
    \/ GuikitDispatch
    \/ ButtonClicked
    \/ WindowClose
    \/ ShortcutDispatch
    \/ StreamingDispatch
    \/ StreamingRelock
    \/ LoopExit
    \/ RemoveWatch
    \/ Teardown

(***************************************************************************)
(* Drain: the new_sample callbacks of the appsinks                         *)
(***************************************************************************)

InitDrain(t) ==
    /\ dr_tut = t
    /\ dr_alive = TRUE
    /\ sink_started = TRUE
    /\ sink_queue = 0
    /\ dr_pc = "idle"
    /\ dr_calls = 0
    /\ dr_pull_calls = 0
    /\ dr_pulled = 0
    /\ dr_ret = "-"

\* The streaming thread queues a sample in the appsink and calls new_sample.
\* One streaming thread: one invocation at a time.
SampleRendered ==
    /\ UNCHANGED notDrain
    /\ sink_started
    /\ dr_pc = "idle"
    /\ dr_calls < MaxSamples
    /\ sink_queue' = sink_queue + 1
    /\ dr_pc' = "called"
    /\ dr_calls' = dr_calls + 1
    /\ dr_pull_calls' = 0
    /\ dr_pulled' = 0
    /\ dr_ret' = "-"
    /\ UNCHANGED <<dr_tut, dr_alive, sink_started>>

\* The main thread leaves Paused (set_state(Null) after the main loop, or a
\* Ready request): the appsink stops and drops what it had queued. A
\* callback that is running goes on.
SinkStop ==
    /\ UNCHANGED notDrain
    /\ sink_started
    /\ sink_started' = FALSE
    /\ sink_queue' = 0
    /\ UNCHANGED <<dr_tut, dr_alive, dr_pc, dr_calls, dr_pull_calls, dr_pulled,
                   dr_ret>>

\* tutorial_shortcut_pipeline returns and drops `data`. set_state(Null) has
\* returned before, and it returns only once the streaming thread has left
\* the callback.
DataDrop ==
    /\ UNCHANGED notDrain
    /\ dr_tut = "shortcut"
    /\ dr_alive
    /\ ~sink_started
    /\ dr_pc = "idle"
    /\ dr_alive' = FALSE
    /\ UNCHANGED <<dr_tut, sink_started, sink_queue, dr_pc, dr_calls,
                   dr_pull_calls, dr_pulled, dr_ret>>

\* A callback that hands the failure of the pull to the framework.
NewSampleReturn_Propagate(pull_ok) ==
    IF pull_ok THEN "Ok" ELSE "Err"

\* if let Ok(_sample) = appsink.pull_sample() { .. }  Ok(gst::FlowSuccess::Ok)
NewSampleReturn(pull_ok) ==
    "Ok"

\* The body of the new_sample callback. tutorial_shortcut_pipeline's returns
\* Ok at once when data_weak.upgrade() is None; otherwise (and always in
\* preview_metadata) it calls pull_sample once, which hands out the oldest
\* queued sample, or fails when the appsink is stopped.
NewSampleBody ==
    /\ UNCHANGED notDrain
    /\ dr_pc = "called"
    /\ IF dr_tut = "shortcut" /\ ~dr_alive
         THEN /\ dr_ret' = "Ok"
              /\ UNCHANGED <<sink_queue, dr_pull_calls, dr_pulled>>
         ELSE LET pull_ok == sink_started /\ sink_queue > 0
              IN  /\ dr_pull_calls' = dr_pull_calls + 1
                  /\ dr_pulled' = (IF pull_ok THEN dr_pulled + 1 ELSE dr_pulled)
                  /\ sink_queue' = (IF pull_ok THEN sink_queue - 1 ELSE sink_queue)
                  /\ dr_ret' = NewSampleReturn(pull_ok)
    /\ dr_pc' = "idle"
    /\ UNCHANGED <<dr_tut, dr_alive, sink_started, dr_calls>>

DrainNext ==
    \/ SampleRendered
    \/ SinkStop
    \/ DataDrop
    \/ NewSampleBody

(***************************************************************************)
(* Speed: tutorial_playback_speed                                          *)
(***************************************************************************)

\* let mut playing = true; let mut rate = 1.;
InitSpeed ==
    /\ sp_pc = "init"
    /\ sp_playing = TRUE
    /\ sp_rate = [neg |-> FALSE, exp |-> 0]
    /\ sp_seek = {}
    /\ sp_step = {}
    /\ sp_cmds = 0

\* The positions, in seconds, query_position may answer.
Positions ==
    {0, 5}

\* The exponents of the largest and of the smallest power of two an f64
\* holds. An exp above the range stands for an infinite rate, an exp below it
\* for a rate of zero, each with the sign in neg.
F64MaxExponent ==
    1023

F64MinExponent ==
    0 - 1074

IsInfinite(rate) ==
    rate.exp > F64MaxExponent

IsZero(rate) ==
    rate.exp < F64MinExponent

\* rate * 2., rate / 2., rate * -1. in f64: doubling the largest power of two
\* gives infinity, halving the smallest gives zero, and both stay what they
\* are when doubled or halved.
NewRate(rate, command) ==
    IF command = "ReverseRate"
      THEN [rate EXCEPT !.neg = ~@]
      ELSE IF IsInfinite(rate) \/ IsZero(rate)
             THEN rate
             ELSE IF command = "DataRateUp"
                    THEN [rate EXCEPT !.exp = @ + 1]
                    ELSE [rate EXCEPT !.exp = @ - 1]

\* The seek event send_seek_event builds for rate at position (rate > 0.
\* takes the first form).
SeekEvent(rate, position) ==
    IF ~rate.neg /\ ~IsZero(rate)
      THEN [rate |-> rate, flags |-> {"FLUSH", "ACCURATE"},
            start_type |-> "Set", start |-> position,
            stop_type |-> "End", stop |-> 0]
      ELSE [rate |-> rate, flags |-> {"FLUSH", "ACCURATE"},
            start_type |-> "Set", start |-> position,
            stop_type |-> "Set", stop |-> position]

\* let _ = pipeline.set_state(State::Playing)?;
SpeedStart ==
    /\ UNCHANGED notSpeed
    /\ sp_pc = "init"
    /\ \E result \in Results("Playing") :
         /\ SetState("Playing", result)
         /\ sp_pc' = (IF result = "Failure" THEN "failed" ELSE "loop")
    /\ UNCHANGED <<sp_playing, sp_rate, sp_seek, sp_step, sp_cmds>>

\* The transition in progress advances by one state.
SpeedStateStep ==
    /\ UNCHANGED notSpeed
    /\ sp_pc = "loop"
    /\ pending # {}
    /\ \E target \in pending :
         LET new == StepToward(gstate, target)
         IN  /\ gstate' = new
             /\ pending' = (IF new = target THEN {} ELSE pending)
             /\ seen_ready' = (seen_ready \/ new = "Ready")
             /\ seen_paused' = (seen_paused \/ (new = "Paused" /\ seen_ready))
    /\ UNCHANGED speedVars

\* Command::PlayPause: the answer of set_state is dropped (let _ =) and
\* playing is negated.
SpeedPlayPause ==
    /\ UNCHANGED notSpeed
    /\ sp_pc = "loop"
    /\ sp_cmds < MaxCommands
    /\ \E result \in Results("Paused") :
         SetState(IF sp_playing THEN "Paused" ELSE "Playing", result)
    /\ sp_playing' = ~sp_playing
    /\ sp_cmds' = sp_cmds + 1
    /\ UNCHANGED <<sp_pc, sp_rate, sp_seek, sp_step>>

\* send_seek_event(&pipeline, rate') for the rate' of the command, and the
\* new rate is stored if it returned true. position is the answer of
\* query_position ({} is None), has_sink whether playbin has a video-sink,
\* accepted what send_event returned. A rate of zero is outside what
\* gst_event_new_seek is defined for: built says whether Seek::new returned
\* an event then, and the handler panics if it did not.
SendSeekEvent(command, position, has_sink, accepted, built) ==
    LET rate == NewRate(sp_rate, command)
        made == position # {} /\ (IsZero(rate) => built)
        sent == made /\ has_sink
    IN  /\ position # {} => gstate \in {"Paused", "Playing"}
        /\ sp_pc' = (IF position # {} /\ ~made THEN "panicked" ELSE sp_pc)
        /\ sp_seek' = (IF sent
                         THEN {[event |-> SeekEvent(rate, CHOOSE p \in position : TRUE),
                                position |-> CHOOSE p \in position : TRUE]}
                         ELSE sp_seek)
        /\ sp_rate' = (IF sent /\ accepted THEN rate ELSE sp_rate)

\* Command::DataRateUp, DataRateDown and ReverseRate.
SpeedRateChange ==
    /\ UNCHANGED notSpeed
    /\ sp_pc = "loop"
    /\ sp_cmds < MaxCommands
    /\ \E command \in {"DataRateUp", "DataRateDown", "ReverseRate"},
          position \in {{}} \cup {{p} : p \in Positions},
          has_sink \in BOOLEAN, accepted \in BOOLEAN, built \in BOOLEAN :
         SendSeekEvent(command, position, has_sink, accepted, built)
    /\ sp_cmds' = sp_cmds + 1
    /\ UNCHANGED <<sp_playing, sp_step, graphVars>>

\* The same commands in a run of any length: the keys S, s and d pressed
\* again and again, with a position and a video sink at hand.
SpeedRateKey ==
    /\ UNCHANGED notSpeed
    /\ sp_pc = "loop"
    /\ gstate = "Playing"
    /\ \E command \in {"DataRateUp", "DataRateDown", "ReverseRate"},
          position \in {{p} : p \in Positions},
          accepted \in BOOLEAN, built \in BOOLEAN :
         SendSeekEvent(command, position, TRUE, accepted, built)
    /\ UNCHANGED <<sp_playing, sp_step, sp_cmds, graphVars>>

\* Command::NextFrame: Step::new(Buffers(1), rate.abs(), true, false) is sent
\* to the video sink, if there is one.
SpeedNextFrame ==
    /\ UNCHANGED notSpeed
    /\ sp_pc = "loop"
    /\ sp_cmds < MaxCommands
    /\ \E has_sink \in BOOLEAN :
         sp_step' = (IF has_sink
                       THEN {[buffers |-> 1, rate |-> [sp_rate EXCEPT !.neg = FALSE],
                              flush |-> TRUE, intermediate |-> FALSE]}
                       ELSE sp_step)
    /\ sp_cmds' = sp_cmds + 1
    /\ UNCHANGED <<sp_pc, sp_playing, sp_rate, sp_seek, graphVars>>

\* Command::Quit: main_loop.quit(); main_loop.run() returns.
SpeedQuit ==
    /\ UNCHANGED notSpeed
    /\ sp_pc = "loop"
    /\ sp_pc' = "teardown"
    /\ UNCHANGED <<sp_playing, sp_rate, sp_seek, sp_step, sp_cmds, graphVars>>

\* pipeline.set_state(State::Null)?;
SpeedTeardown ==
    /\ UNCHANGED notSpeed
    /\ sp_pc = "teardown"
    /\ SetState("Null", "Success")
    /\ sp_pc' = "done"
    /\ UNCHANGED <<sp_playing, sp_rate, sp_seek, sp_step, sp_cmds>>

SpeedNext ==
    \/ SpeedStart
    \/ SpeedStateStep
    \/ SpeedPlayPause
    \/ SpeedRateChange
    \/ SpeedNextFrame
    \/ SpeedQuit
    \/ SpeedTeardown

(***************************************************************************)
(* Discover: tutorial_media_info                                           *)
(***************************************************************************)

InitDiscover ==
    /\ dc_pc = "init"
    /\ dc_started = FALSE
    /\ dc_info = {}
    /\ dc_report = <<>>

\* One logged line: what it is, its indentation depth, and its text.
Line(item, depth, name, text) ==
    [item |-> item, depth |-> depth, name |-> name, text |-> text]

\* The stream topologies of the model: a lone audio stream, a video stream
\* followed by an audio stream (next), and a container of a video and an
\* audio stream. tags is {} for None, else {the tag names}; caps is "" for
\* no caps.
AudioStream ==
    [nick |-> "audio", caps |-> "Vorbis", tags |-> {}, next |-> <<>>,
     streams |-> <<>>]

VideoStream ==
    [nick |-> "video", caps |-> "", tags |-> {<<"bitrate">>}, next |-> <<>>,
     streams |-> <<>>]

ChainedStream ==
    [nick |-> "video", caps |-> "VP8", tags |-> {}, next |-> <<AudioStream>>,
     streams |-> <<>>]

ContainerStream ==
    [nick |-> "container", caps |-> "WebM", tags |-> {<<"title", "encoder">>},
     next |-> <<>>, streams |-> <<VideoStream, AudioStream>>]

Topologies ==
    {AudioStream, ChainedStream, ContainerStream}

\* The results a discovery ends with, each with what the discoverer attaches
\* to it: an Error may come without a glib::Error, MissingPlugins comes with
\* the structure of the missing-plugin message (misc).
DiscovererResults ==
    {[result |-> "Ok", error |-> {}, misc |-> {}],
     [result |-> "UriInvalid", error |-> {}, misc |-> {}],
     [result |-> "Error", error |-> {}, misc |-> {}],
     [result |-> "Error", error |-> {"msg"}, misc |-> {}],
     [result |-> "Timeout", error |-> {}, misc |-> {}],
     [result |-> "Busy", error |-> {}, misc |-> {}],
     [result |-> "MissingPlugins", error |-> {}, misc |-> {"missing-plugin"}]}

\* What DiscovererInfo holds besides the result, whatever the result is.
DiscovererDetails ==
    [duration : {{}, {60}},
     tags : {{}, {<<"title">>}},
     seekable : BOOLEAN,
     stream_info : {{}} \cup {{t} : t \in Topologies}]

\* A callback that reports the details whatever the result is.
DetailsReported_Always(result) ==
    TRUE

\* if discoverer_info.result() != DiscovererResult::Ok { return; }
DetailsReported(result) ==
    result = "Ok"

\* match discoverer_info.result() { .. }: the line logged for the result.
OutcomeLines(r) ==
    CASE r.result = "Ok" -> <<Line("Outcome", 0, "Ok", "Discovered")>>
      [] r.result = "UriInvalid" -> <<Line("Outcome", 0, "UriInvalid", "Invalid uri")>>
      [] r.result = "Error" ->
           <<Line("Outcome", 0, "Error",
                  IF r.error # {} THEN CHOOSE e \in r.error : TRUE ELSE "Unknown error")>>
      [] r.result = "Timeout" -> <<Line("Outcome", 0, "Timeout", "Timeout")>>
      [] r.result = "Busy" -> <<Line("Outcome", 0, "Busy", "Busy")>>
      [] r.result = "MissingPlugins" ->
           IF r.misc # {}
             THEN <<Line("Outcome", 0, "MissingPlugins", CHOOSE m \in r.misc : TRUE)>>
             ELSE <<>>
      [] OTHER -> <<Line("Outcome", 0, "Unknown", "Unknown result")>>

\* for (tag, values) in tags.iter_generic() { .. }: one line per tag.
RECURSIVE TagLines(_, _, _)
TagLines(item, depth, tags) ==
    IF tags = <<>>
      THEN <<>>
      ELSE <<Line(item, depth, Head(tags), "")>> \o TagLines(item, depth, Tail(tags))

\* print_stream_info
PrintStreamInfo(info, depth) ==
    <<Line("Stream", depth, info.nick, info.caps)>>
      \o (IF info.tags # {}
            THEN <<Line("StreamTags", depth, "", "Tags:")>>
                   \o TagLines("StreamTag", depth, CHOOSE t \in info.tags : TRUE)
            ELSE <<>>)

\* print_topology: the stream, then what follows it (next), or else the
\* streams it contains, one level deeper.
RECURSIVE PrintTopology(_, _)
RECURSIVE PrintStreams(_, _)
PrintTopology(info, depth) ==
    PrintStreamInfo(info, depth)
      \o (IF info.next # <<>>
            THEN PrintTopology(info.next[1], depth + 1)
            ELSE PrintStreams(info.streams, depth + 1))

PrintStreams(streams, depth) ==
    IF streams = <<>>
      THEN <<>>
      ELSE PrintTopology(Head(streams), depth) \o PrintStreams(Tail(streams), depth)

\* on_discovered: everything it logs for (r, d).
OnDiscovered(r, d) ==
    OutcomeLines(r)
      \o (IF DetailsReported(r.result)
            THEN <<Line("Duration", 0, "",
                        IF d.duration = {} THEN "none" ELSE "0:01:00")>>
                   \o (IF d.tags # {}
                         THEN <<Line("Tags", 0, "", "Tags:")>>
                                \o TagLines("Tag", 0, CHOOSE t \in d.tags : TRUE)
                         ELSE <<>>)
                   \o <<Line("Seekable", 0, "", IF d.seekable THEN "yes" ELSE "no")>>
                   \o <<Line("StreamInformation", 0, "", "Stream information:")>>
                   \o (IF d.stream_info # {}
                         THEN PrintTopology(CHOOSE t \in d.stream_info : TRUE, 1)
                         ELSE <<>>)
            ELSE <<>>)

\* gst::init()?; Discoverer::new(timeout)?; connect_discovered;
\* connect_finished; discoverer.start(); discoverer.discover_uri_async(uri)?
DiscoverStart ==
    /\ UNCHANGED notDiscover
    /\ dc_pc = "init"
    /\ \E initialized \in BOOLEAN, created \in BOOLEAN, accepted \in BOOLEAN :
         /\ dc_started' = (initialized /\ created)
         /\ dc_pc' = (IF initialized /\ created /\ accepted THEN "running" ELSE "failed")
    /\ UNCHANGED <<dc_info, dc_report>>

\* The main loop runs the discovered signal: on_discovered, once for the URI.
Discovered ==
    /\ UNCHANGED notDiscover
    /\ dc_pc = "running"
    /\ \E r \in DiscovererResults, d \in DiscovererDetails :
         /\ dc_info' = {[r |-> r, d |-> d]}
         /\ dc_report' = OnDiscovered(r, d)
    /\ dc_pc' = "discovered"
    /\ UNCHANGED dc_started

\* The finished signal: loop_clone.quit(), and loop_.run() returns.
Finished ==
    /\ UNCHANGED notDiscover
    /\ dc_pc = "discovered"
    /\ dc_pc' = "finished"
    /\ UNCHANGED <<dc_started, dc_info, dc_report>>

\* discoverer.stop(); Ok(())
DiscovererStop ==
    /\ UNCHANGED notDiscover
    /\ dc_pc = "finished"
    /\ dc_started' = FALSE
    /\ dc_pc' = "done"
    /\ UNCHANGED <<dc_info, dc_report>>

DiscoverNext ==
    \/ DiscoverStart
    \/ Discovered
    \/ Finished
    \/ DiscovererStop

(***************************************************************************)
(* Flow: the feeder's callbacks and new_sample on the one mutex            *)
(***************************************************************************)

InitFlow ==
    pc_sample = "idle"

\* A new_sample that keeps the guard while it pulls.
GuardAtPull_Held ==
    "sample"

\* let appsink = { let data = data.lock().unwrap(); data.appsink.clone() };
\* the guard is dropped at the end of the block, before pull_sample.
GuardAtPull ==
    "free"

\* new_sample is invoked (a chunk has been pushed) and takes the lock.
SampleLock ==
    /\ UNCHANGED notFlow
    /\ ~panicked
    /\ pc_sample = "idle"
    /\ chunks > 0
    /\ mutex = "free"
    /\ mutex' = "sample"
    /\ pc_sample' = "locked"
    /\ UNCHANGED <<source_id, num_samples, sources, next_id, pc_need, pc_enough,
                   pc_task, task_id, buffer, push_ok, panicked, stopped,
                   disp_since_stop, gen_since_stop, push_since_stop, chunks,
                   last_chunk, dur_sum>>

\* data.appsink.clone(), and the block ends.
SampleClone ==
    /\ UNCHANGED notFlow
    /\ ~panicked
    /\ pc_sample = "locked"
    /\ mutex' = GuardAtPull
    /\ pc_sample' = "pull"
    /\ UNCHANGED <<source_id, num_samples, sources, next_id, pc_need, pc_enough,
                   pc_task, task_id, buffer, push_ok, panicked, stopped,
                   disp_since_stop, gen_since_stop, push_since_stop, chunks,
                   last_chunk, dur_sum>>

\* appsink.pull_sample(), print, Ok(gst::FlowSuccess::Ok)
SamplePull ==
    /\ UNCHANGED notFlow
    /\ ~panicked
    /\ pc_sample = "pull"
    /\ mutex' = (IF mutex = "sample" THEN "free" ELSE mutex)
    /\ pc_sample' = "idle"
    /\ UNCHANGED <<source_id, num_samples, sources, next_id, pc_need, pc_enough,
                   pc_task, task_id, buffer, push_ok, panicked, stopped,
                   disp_since_stop, gen_since_stop, push_since_stop, chunks,
                   last_chunk, dur_sum>>

FlowNext ==
    \/ NeedDataEnter
    \/ NeedDataBody
    \/ EnoughDataEnter
    \/ EnoughDataBody
    \/ TaskDispatch
    \/ TaskLock
    \/ TaskGenerate
    \/ TaskPush
    \/ TaskReturn
    \/ SampleLock
    \/ SampleClone
    \/ SamplePull

(***************************************************************************)
(* Slider: the seek bar of tutorial_guikit::create_ui                      *)
(***************************************************************************)

\* gtk::Scale::with_range(Horizontal, 0.0, 100.0, 1.0): the value starts at
\* the lower end.
InitSlider ==
    /\ sl_value = 0
    /\ sl_upper = SliderInitialUpper
    /\ sl_blocked = FALSE
    /\ sl_seeks = <<>>

\* The values the user drags the slider to.
SliderStops ==
    {0, 30, 90}

\* The durations and positions, in whole seconds, the playbin answers.
SliderDurations ==
    {52, 100}

SliderPositions ==
    {0, 10}

\* GtkRange keeps its value inside its range.
Clamp(v, lower, upper) ==
    IF v < lower THEN lower ELSE IF v > upper THEN upper ELSE v

\* The value went from old to new: "value-changed" is emitted, and the
\* handler connected by connect_value_changed, unless blocked, calls
\* seek_simple(FLUSH | KEY_UNIT, value seconds); a failed seek only prints.
ValueChanged(seeks, blocked, old, new, by) ==
    IF new # old /\ ~blocked
      THEN Append(seeks, [by |-> by, value |-> new])
      ELSE seeks

\* The user moves the slider to another value of its range.
SliderDrag ==
    /\ UNCHANGED notSlider
    /\ Len(sl_seeks) < MaxSliderSeeks
    /\ \E v \in SliderStops :
         /\ v <= sl_upper
         /\ v # sl_value
         /\ sl_value' = v
         /\ sl_seeks' = ValueChanged(sl_seeks, sl_blocked, sl_value, v, "user")
    /\ UNCHANGED <<sl_upper, sl_blocked>>

\* The callback of timeout_add_seconds_local(1, ..): with a duration,
\* set_range(0, duration), which clamps the value into the new range; with a
\* position too, block_signal, set_value(position), unblock_signal.
\* dur and pos are the answers of query_duration and query_position ({} is
\* None).
SliderRefresh ==
    /\ UNCHANGED notSlider
    /\ Len(sl_seeks) < MaxSliderSeeks
    /\ \E dur \in {{}} \cup {{d} : d \in SliderDurations},
          pos \in {{}} \cup {{p} : p \in SliderPositions} :
         IF dur = {}
           THEN UNCHANGED <<sl_value, sl_upper, sl_blocked, sl_seeks>>
           ELSE LET upper == CHOOSE d \in dur : TRUE
                    ranged == Clamp(sl_value, 0, upper)
                    seeks == ValueChanged(sl_seeks, sl_blocked, sl_value, ranged,
                                          "timer")
                IN  /\ sl_upper' = upper
                    /\ IF pos = {}
                         THEN /\ sl_value' = ranged
                              /\ sl_seeks' = seeks
                              /\ UNCHANGED sl_blocked
                         ELSE LET set == Clamp(CHOOSE p \in pos : TRUE, 0, upper)
                              IN  /\ sl_value' = set
                                  /\ sl_seeks' = ValueChanged(seeks, TRUE, ranged,
                                                              set, "timer")
                                  /\ sl_blocked' = FALSE

SliderNext ==
    \/ SliderDrag
    \/ SliderRefresh

(***************************************************************************)
(* Tags: tutorial_guikit's tag signals and its "application" handler       *)
(***************************************************************************)

InitTags ==
    /\ tg_pc = "loop"
    /\ tg_tags = {}
    /\ tg_bus = <<>>
    /\ textbuf = <<>>
    /\ tg_signals = 0
    /\ tg_others = 0
    /\ tg_delivered = 0
    /\ tg_writes = 0

\* The names an Application message's structure may have.
AppNames ==
    {"tags-changed", "other"}

\* A handler that takes every Application message for a change of tags.
IsTagsChanged_AnyName(name) ==
    TRUE

\* application.structure().map(|s| s.name()) == Some("tags-changed")
IsTagsChanged(name) ==
    name = "tags-changed"

\* analyze_streams: the buffer is emptied and the streams are listed, video
\* first, then audio, then text.
AnalyzeStreams(tags) ==
    SelectSeq(<<"video", "audio", "text">>, LAMBDA k : k \in tags)

\* playbin emits "video-tags-changed", "audio-tags-changed" or
\* "text-tags-changed" on a streaming thread; the callback calls
\* post_app_message, which drops the answer of post_message (posted: the bus
\* took the message).
TagsChangedSignal ==
    /\ UNCHANGED notTags
    /\ tg_pc = "loop"
    /\ tg_signals + tg_others < MaxTagPosts
    /\ \E kind \in {"video", "audio", "text"}, posted_ok \in BOOLEAN :
         /\ tg_tags' = tg_tags \cup {kind}
         /\ tg_bus' = (IF posted_ok THEN Append(tg_bus, "tags-changed") ELSE tg_bus)
    /\ tg_signals' = tg_signals + 1
    /\ UNCHANGED <<tg_pc, textbuf, tg_others, tg_delivered, tg_writes>>

\* A node posts an Application message of another name.
OtherApplication ==
    /\ UNCHANGED notTags
    /\ tg_pc = "loop"
    /\ tg_signals + tg_others < MaxTagPosts
    /\ \E name \in AppNames \ {"tags-changed"} :
         tg_bus' = Append(tg_bus, name)
    /\ tg_others' = tg_others + 1
    /\ UNCHANGED <<tg_pc, tg_tags, textbuf, tg_signals, tg_delivered, tg_writes>>

\* The signal watch gives the oldest Application message to the handler
\* connected with Some("application"), on the main thread.
ApplicationDispatch ==
    /\ UNCHANGED notTags
    /\ tg_pc = "loop"
    /\ tg_bus # <<>>
    /\ LET name == BusFront(tg_bus)
       IN  /\ tg_bus' = BusRest(tg_bus)
           /\ tg_delivered' = (IF name = "tags-changed"
                                 THEN tg_delivered + 1
                                 ELSE tg_delivered)
           /\ IF IsTagsChanged(name)
                THEN /\ textbuf' = AnalyzeStreams(tg_tags)
                     /\ tg_writes' = tg_writes + 1
                ELSE UNCHANGED <<textbuf, tg_writes>>
    /\ UNCHANGED <<tg_pc, tg_tags, tg_signals, tg_others>>

\* gtk::main() returns; the watch is removed with what is left on the bus.
TagsQuit ==
    /\ UNCHANGED notTags
    /\ tg_pc = "loop"
    /\ tg_pc' = "done"
    /\ UNCHANGED <<tg_tags, tg_bus, textbuf, tg_signals, tg_others, tg_delivered,
                   tg_writes>>

TagsNext ==
    \/ TagsChangedSignal
    \/ OtherApplication
    \/ ApplicationDispatch
    \/ TagsQuit

(***************************************************************************)
(* Weak: the callbacks that upgrade a Weak before they do anything         *)
(***************************************************************************)

\* After construction everything the Weak handles point to is alive, no
\* idle source is attached and no callback has run.
InitWeak ==
    /\ wk_data = TRUE
    /\ wk_pipeline = TRUE
    /\ wk_list = TRUE
    /\ wk_source_id = {}
    /\ wk_chunks = 0
    /\ wk_task = FALSE
    /\ wk_pulls = 0
    /\ wk_writes = 0
    /\ wk_last = [cb |-> "-", upgraded |-> TRUE, ret |-> "-"]
    /\ wk_skipped = {}
    /\ wk_calls = 0

\* The callback cb has run; upgraded says whether every upgrade it made gave
\* Some, ret is what it returned.
Called(cb, upgraded, ret) ==
    /\ wk_last' = [cb |-> cb, upgraded |-> upgraded, ret |-> ret]
    /\ wk_skipped' = (IF upgraded THEN wk_skipped ELSE wk_skipped \cup {cb})
    /\ wk_calls' = wk_calls + 1

\* A generation closure that asks to be called again although its data is
\* gone.
TaskOnDropped_Again ==
    "Continue(true)"

\* None => return glib::Continue(false)
TaskOnDropped ==
    "Continue(false)"

\* The last strong handle to CustomData goes away (tutorial_shortcut_pipeline
\* returns); an idle source still attached stays attached.
WeakDataDrop ==
    /\ UNCHANGED notWeak
    /\ wk_data
    /\ wk_data' = FALSE
    /\ UNCHANGED <<wk_pipeline, wk_list, wk_source_id, wk_chunks, wk_task,
                   wk_pulls, wk_writes, wk_last, wk_skipped, wk_calls>>

\* The playbin or the text view of tutorial_guikit goes away.
WeakUiDrop ==
    /\ UNCHANGED notWeak
    /\ \/ wk_pipeline /\ wk_pipeline' = FALSE /\ UNCHANGED wk_list
       \/ wk_list /\ wk_list' = FALSE /\ UNCHANGED wk_pipeline
    /\ UNCHANGED <<wk_data, wk_source_id, wk_chunks, wk_task, wk_pulls,
                   wk_writes, wk_last, wk_skipped, wk_calls>>

\* need_data: without the data, return; with it, if source_id is None, attach
\* the generation closure and store its id.
WeakNeedData ==
    /\ UNCHANGED notWeak
    /\ wk_calls < MaxWeakCalls
    /\ Called("need_data", wk_data, "()")
    /\ IF wk_data /\ wk_source_id = {}
         THEN /\ wk_source_id' = {1}
              /\ wk_task' = TRUE
         ELSE UNCHANGED <<wk_source_id, wk_task>>
    /\ UNCHANGED <<wk_data, wk_pipeline, wk_list, wk_chunks, wk_pulls, wk_writes>>

\* enough_data: without the data, return; with it, take source_id and remove
\* the source.
WeakEnoughData ==
    /\ UNCHANGED notWeak
    /\ wk_calls < MaxWeakCalls
    /\ Called("enough_data", wk_data, "()")
    /\ IF wk_data /\ wk_source_id # {}
         THEN /\ wk_source_id' = {}
              /\ wk_task' = FALSE
         ELSE UNCHANGED <<wk_source_id, wk_task>>
    /\ UNCHANGED <<wk_data, wk_pipeline, wk_list, wk_chunks, wk_pulls, wk_writes>>

\* The generation closure: without the data, Continue(false); with it, one
\* chunk is generated and pushed, and the closure continues if the push was
\* accepted.
WeakTask ==
    /\ UNCHANGED notWeak
    /\ wk_calls < MaxWeakCalls
    /\ wk_task
    /\ \E pushed \in BOOLEAN :
         LET ret == IF ~wk_data
                      THEN TaskOnDropped
                      ELSE IF pushed THEN "Continue(true)" ELSE "Continue(false)"
         IN  /\ Called("task", wk_data, ret)
             /\ wk_task' = (ret = "Continue(true)")
             /\ wk_chunks' = (IF wk_data THEN wk_chunks + 1 ELSE wk_chunks)
    /\ UNCHANGED <<wk_data, wk_pipeline, wk_list, wk_source_id, wk_pulls, wk_writes>>

\* new_sample: without the data, Ok(FlowSuccess::Ok) at once; with it, one
\* pull_sample and Ok(FlowSuccess::Ok).
WeakNewSample ==
    /\ UNCHANGED notWeak
    /\ wk_calls < MaxWeakCalls
    /\ Called("new_sample", wk_data, "Ok")
    /\ wk_pulls' = (IF wk_data THEN wk_pulls + 1 ELSE wk_pulls)
    /\ UNCHANGED <<wk_data, wk_pipeline, wk_list, wk_source_id, wk_chunks,
                   wk_task, wk_writes>>

\* The "application" message handler of tutorial_guikit: it returns unless
\* both the playbin and the text view upgrade, and calls analyze_streams for
\* a message named tags-changed.
WeakApplication ==
    /\ UNCHANGED notWeak
    /\ wk_calls < MaxWeakCalls
    /\ Called("application", wk_pipeline /\ wk_list, "()")
    /\ \E name \in AppNames :
         wk_writes' = (IF wk_pipeline /\ wk_list /\ IsTagsChanged(name)
                         THEN wk_writes + 1
                         ELSE wk_writes)
    /\ UNCHANGED <<wk_data, wk_pipeline, wk_list, wk_source_id, wk_chunks,
                   wk_task, wk_pulls>>

WeakNext ==
    \/ WeakDataDrop
    \/ WeakUiDrop
    \/ WeakNeedData
    \/ WeakEnoughData
    \/ WeakTask
    \/ WeakNewSample
    \/ WeakApplication

InitTagsSpec ==
    /\ InitFeeder
    /\ InitLink
    /\ InitRun("guikit")
    /\ gdk = TRUE
    /\ InitDrain("shortcut")
    /\ InitSpeed
    /\ InitTags
    /\ InitWeak
    /\ InitSlider
    /\ InitFlow
    /\ InitDiscover

InitFeederSpec ==
    /\ InitFeeder
    /\ InitLink
    /\ InitRun("shortcut")
    /\ gdk = FALSE
    /\ InitDrain("shortcut")
    /\ InitSpeed
    /\ InitTags
    /\ InitWeak
    /\ InitSlider
    /\ InitFlow
    /\ InitDiscover

InitLinkSpec ==
    /\ InitFeeder
    /\ InitLink
    /\ InitRun("dynamic")
    /\ gdk = FALSE
    /\ InitDrain("shortcut")
    /\ InitSpeed
    /\ InitTags
    /\ InitWeak
    /\ InitSlider
    /\ InitFlow
    /\ InitDiscover

InitDrainSpec ==
    /\ InitFeeder
    /\ InitLink
    /\ InitRun("shortcut")
    /\ gdk = FALSE
    /\ InitSpeed
    /\ InitTags
    /\ InitWeak
    /\ InitSlider
    /\ InitFlow
    /\ InitDiscover
    /\ \E t \in {"shortcut", "preview"} : InitDrain(t)

InitSpeedSpec ==
    /\ InitFeeder
    /\ InitLink
    /\ InitRun("speed")
    /\ gdk = FALSE
    /\ InitDrain("shortcut")
    /\ InitSpeed
    /\ InitTags
    /\ InitWeak
    /\ InitSlider
    /\ InitFlow
    /\ InitDiscover

InitRunSpec ==
    /\ InitDrain("shortcut")
    /\ InitSpeed
    /\ InitTags
    /\ InitWeak
    /\ InitSlider
    /\ InitFlow
    /\ InitDiscover
    /\ InitFeeder
    /\ InitLink
    /\ \E t \in RunTutorials : InitRun(t)
    /\ gdk \in (IF tut = "guikit" THEN BOOLEAN ELSE {FALSE})

InitDiscoverSpec ==
    /\ InitFeeder
    /\ InitLink
    /\ InitRun("mediainfo")
    /\ gdk = FALSE
    /\ InitDrain("shortcut")
    /\ InitSpeed
    /\ InitTags
    /\ InitWeak
    /\ InitSlider
    /\ InitFlow
    /\ InitDiscover

\* The main loop dispatches the signals of the discoverer as they come, and
\* the function goes on when run() returns.
SpecDiscover ==
    InitDiscoverSpec /\ [][DiscoverNext]_vars /\ WF_vars(DiscoverNext)

InitFlowSpec ==
    /\ InitFeeder
    /\ InitLink
    /\ InitRun("shortcut")
    /\ gdk = FALSE
    /\ InitDrain("shortcut")
    /\ InitSpeed
    /\ InitTags
    /\ InitWeak
    /\ InitSlider
    /\ InitDiscover
    /\ InitFlow

\* Every thread that can take a step goes on (the streaming threads run
\* need_data, enough_data and new_sample, the main loop runs the idle
\* closure), a thread that waits for the mutex gets it when it is released
\* again and again, and the main loop dispatches an idle source that stays
\* attached.
SpecFlow ==
    /\ InitFlowSpec
    /\ [][FlowNext]_vars
    /\ WF_vars(NeedDataBody)
    /\ WF_vars(EnoughDataBody)
    /\ WF_vars(TaskGenerate)
    /\ WF_vars(TaskPush)
    /\ WF_vars(TaskReturn)
    /\ WF_vars(SampleClone)
    /\ WF_vars(SamplePull)
    /\ SF_vars(TaskLock)
    /\ SF_vars(TaskDispatch)

StreamingNext ==
    \/ StateStep
    \/ PostMessage
    \/ StartPlaying
    \/ StreamingDispatch
    \/ StreamingRelock
    \/ LoopExit
    \/ RemoveWatch
    \/ Teardown

InitStreamingSpec ==
    /\ InitFeeder
    /\ InitLink
    /\ InitRun("streaming")
    /\ gdk = FALSE
    /\ InitDrain("shortcut")
    /\ InitSpeed
    /\ InitTags
    /\ InitWeak
    /\ InitSlider
    /\ InitDiscover
    /\ InitFlow

\* tutorial_streaming alone. Once main_loop.quit() was called, run() returns
\* and the main thread goes on with remove_watch and set_state(Null).
SpecStreaming ==
    /\ InitStreamingSpec
    /\ [][StreamingNext]_vars
    /\ WF_vars(LoopExit)
    /\ WF_vars(RemoveWatch)
    /\ WF_vars(Teardown)

RateNext ==
    \/ SpeedStart
    \/ SpeedStateStep
    \/ SpeedRateKey
    \/ SpeedQuit
    \/ SpeedTeardown

\* tutorial_playback_speed with rate commands only, as many as are typed.
SpecRate ==
    InitSpeedSpec /\ [][RateNext]_vars

InitSliderSpec ==
    /\ InitFeeder
    /\ InitLink
    /\ InitRun("guikit")
    /\ gdk = TRUE
    /\ InitDrain("shortcut")
    /\ InitSpeed
    /\ InitTags
    /\ InitWeak
    /\ InitDiscover
    /\ InitFlow
    /\ InitSlider

SpecSlider ==
    InitSliderSpec /\ [][SliderNext]_vars

InitWeakSpec ==
    /\ InitFeeder
    /\ InitLink
    /\ InitRun("shortcut")
    /\ gdk = FALSE
    /\ InitDrain("shortcut")
    /\ InitSpeed
    /\ InitTags
    /\ InitDiscover
    /\ InitFlow
    /\ InitSlider
    /\ InitWeak

SpecWeak ==
    InitWeakSpec /\ [][WeakNext]_vars

SpecFeeder ==
    InitFeederSpec /\ [][FeederNext]_vars

SpecLink ==
    InitLinkSpec /\ [][LinkNext]_vars

SpecRun ==
    InitRunSpec /\ [][RunNext]_vars

SpecDrain ==
    InitDrainSpec /\ [][DrainNext]_vars

SpecSpeed ==
    InitSpeedSpec /\ [][SpeedNext]_vars

SpecTags ==
    InitTagsSpec /\ [][TagsNext]_vars

(***************************************************************************)
(* Feeder: properties                                                      *)
(***************************************************************************)

\* C1: at most one generation task is attached to the main context at any
\* time, and a need_data that finds source_id set changes neither source_id
\* nor the attached sources: it schedules no second task.
C1_AtMostOneTask ==
    /\ [](Cardinality(sources) <= 1 /\ sources \subseteq source_id)
    /\ [][(pc_need = "locked" /\ pc_need' = "idle" /\ source_id # {})
            => UNCHANGED <<source_id, sources, next_id>>]_vars

\* need_data holds the lock while a task is already attached.
C1_Witness ==
    /\ pc_need = "locked"
    /\ source_id # {}
    /\ Cardinality(sources) = 1

\* C2 as claimed: once enough_data has returned, and until a need_data is
\* delivered, no chunk is generated and none is pushed.
C2_NoChunkAfterEnough ==
    stopped => (gen_since_stop = 0 /\ push_since_stop = 0)

\* C2 amended: once enough_data has returned, and until a need_data is
\* delivered, no activation of the generation task is dispatched, and at most
\* one chunk is generated and pushed: that of the activation already
\* dispatched when enough_data ran.
C2_OnlyInFlightChunkAfterEnough ==
    stopped => (/\ ~disp_since_stop
                /\ gen_since_stop <= 1
                /\ push_since_stop <= 1
                /\ sources = {})

\* enough_data has returned, and the activation it overtook has generated
\* and pushed its chunk afterwards.
C2_Witness ==
    /\ stopped
    /\ gen_since_stop = 1
    /\ push_since_stop = 1
    /\ pc_task = "ret"

\* C3 as claimed: when the closure returns after a failed push, the feeding
\* flag is cleared and the source is no longer attached.
C3_PushFailureClearsFlag ==
    [][(pc_task = "ret" /\ pc_task' = "idle" /\ ~push_ok)
         => (source_id' = {} /\ task_id \cap sources' = {})]_vars

\* C4 as claimed: enough_data run while no generation task is attached
\* raises no panic and changes nothing of the Feeder's state.
C4_EnoughDataSafeNoop ==
    [][(pc_enough = "locked" /\ pc_enough' = "idle" /\ sources = {})
         => (~panicked' /\ UNCHANGED <<source_id, sources, num_samples>>)]_vars

\* C19 as claimed: the pts sequence is non-decreasing and each chunk's pts is
\* exactly the previous chunk's pts plus the previous chunk's duration.
C19_PtsAdvanceByDuration ==
    [][(chunks' = chunks + 1 /\ last_chunk # <<>>)
         => /\ last_chunk'[1].pts >= last_chunk[1].pts
            /\ last_chunk'[1].pts - last_chunk[1].pts = last_chunk[1].duration]_vars

\* C19 as amended: the first pts is 0, the pts sequence is non-decreasing and
\* each chunk's pts exceeds the previous chunk's pts by the previous chunk's
\* duration or by one nanosecond more (both are floors of exact quotients).
C19_PtsAdvanceWithinOneUnit ==
    /\ []((chunks = 1 /\ last_chunk # <<>>) => last_chunk[1].pts = 0)
    /\ [][(chunks' = chunks + 1 /\ last_chunk # <<>>)
            => /\ last_chunk'[1].pts >= last_chunk[1].pts
               /\ last_chunk'[1].pts - last_chunk[1].pts
                    \in {last_chunk[1].duration, last_chunk[1].duration + 1}]_vars

\* The fifth chunk: its pts is the fourth's plus the duration plus one.
C19_Witness ==
    /\ chunks = 5
    /\ last_chunk = <<[pts |-> 46439909, duration |-> 11609977]>>
    /\ num_samples = 2560

\* C20: the sample counter is 512 times the number of chunks generated, at
\* every point of every interleaving of need_data, enough_data and the
\* generation task, whatever the pushes answered; it changes only when a
\* chunk is generated, and it is 5120 after 10 chunks.
C20_SamplesCountChunks ==
    /\ [](num_samples = 512 * chunks)
    /\ [](chunks = 10 => num_samples = 5120)
    /\ [][num_samples' # num_samples => chunks' = chunks + 1]_vars

\* Ten chunks were generated, need_data has attached a second source after
\* an enough_data, and the push of the tenth chunk was refused.
C20_Witness ==
    /\ chunks = 10
    /\ num_samples = 5120
    /\ pc_task = "ret"
    /\ ~push_ok
    /\ next_id > 2

\* floor(samples * 10^9 / 44100): the time of that many samples, in ns.
ExactNs(samples) ==
    (1000000000 \div 44100) * samples + ((1000000000 % 44100) * samples) \div 44100

\* C21 as claimed: after 10 chunks the sum of the reported durations is
\* within one nanosecond of 5120/44100 seconds (116,099,773.24 ns).
C21_DurationSumWithinOneUnit ==
    chunks = 10 => (dur_sum >= 116099773 - 1 /\ dur_sum <= 116099773 + 1)

\* C21 as amended: the sum of the reported durations never exceeds the time
\* of the samples generated and falls short of it by less than one
\* nanosecond per chunk; after 10 chunks it is 116,099,770 ns, 3 ns short.
C21_DurationSumWithinOneUnitPerChunk ==
    /\ dur_sum <= ExactNs(512 * chunks)
    /\ chunks > 0 => ExactNs(512 * chunks) - dur_sum < chunks
    /\ chunks = 10 => (dur_sum = 116099770 /\ ExactNs(5120) - dur_sum = 3)

\* Ten chunks were generated and the tenth is being pushed.
C21_Witness ==
    /\ chunks = 10
    /\ dur_sum = 116099770
    /\ pc_task = "push"

\* C23 as claimed: the Mutex<CustomData> is never held while a chunk is
\* generated or pushed.
C23_NoLockAcrossGenerateOrPush ==
    /\ [][chunks' = chunks + 1 => mutex # "task"]_vars
    /\ [](pc_task \in {"push", "ret"} => mutex # "task")

(***************************************************************************)
(* Dynamic link: properties                                                *)
(***************************************************************************)

Notified ==
    1 .. Len(pad_log)

\* C5: whatever the sequence of pad-added notifications, convert's sink pad
\* has at most one peer, exactly one as soon as one link succeeded; a
\* notification that finds the sink pad linked attempts no link and logs no
\* link failure.
C5_IdempotentLinking ==
    /\ Cardinality(links) <= 1
    /\ Cardinality({i \in Notified : pad_log[i].outcome = "linked"}) <= 1
    /\ (\E i \in Notified : pad_log[i].outcome = "linked") => Cardinality(links) = 1
    /\ \A i \in Notified : pad_log[i].was_linked => pad_log[i].outcome = "already"

\* A second matching pad arrived after the first was linked.
C5_Witness ==
    /\ Len(pad_log) >= 2
    /\ pad_log[1].outcome = "linked"
    /\ StartsWith(pad_log[2].type, AudioRaw)
    /\ pad_log[2].has_caps
    /\ pad_log[2].outcome = "already"
    /\ links = {1}

\* C6: a link is attempted only for a pad whose type starts with
\* "audio/x-raw"; a pad of another type is ignored, leaves the sink pad's
\* link state as it was and is never linked later; a matching pad that
\* arrives while the sink pad is unlinked is offered to the framework.
C6_LinkOnlyOnMatch ==
    /\ [](/\ \A i \in Notified :
               pad_log[i].outcome \in {"linked", "failed"}
                  => StartsWith(pad_log[i].type, AudioRaw)
          /\ \A i \in Notified :
               (~pad_log[i].was_linked /\ pad_log[i].has_caps
                  /\ ~StartsWith(pad_log[i].type, AudioRaw))
                  => pad_log[i].outcome = "ignored"
          /\ \A i \in Notified :
               (~pad_log[i].was_linked /\ pad_log[i].has_caps
                  /\ StartsWith(pad_log[i].type, AudioRaw))
                  => pad_log[i].outcome \in {"linked", "failed"}
          /\ \A p \in links :
               /\ p \in Notified
               /\ pad_log[p].outcome = "linked"
               /\ StartsWith(pad_log[p].type, AudioRaw))
    /\ [][(Len(pad_log') = Len(pad_log) + 1
             /\ pad_log'[Len(pad_log')].outcome = "ignored")
            => links' = links]_vars

\* Two non-matching pads were ignored, then a matching one was linked.
C6_Witness ==
    /\ Len(pad_log) = 3
    /\ pad_log[1].outcome = "ignored"
    /\ pad_log[1].type = AudioMpeg
    /\ pad_log[2].outcome = "ignored"
    /\ pad_log[2].type = VideoRaw
    /\ pad_log[3].outcome = "linked"
    /\ links = {3}

\* C30: a link refused inside the pad-added callback is logged and ignored:
\* the callback does not panic, the sink pad stays unlinked and the run goes
\* on; a failed static link aborts the assembly, so that Playing is never
\* requested (and no pad is ever notified) for that graph.
C30_LinkFailures ==
    /\ [](\A i \in Notified :
            pad_log[i].outcome = "failed"
              => (~pad_log[i].was_linked /\ (i = Len(pad_log) => ~link_panicked)))
    /\ [][(Len(pad_log') = Len(pad_log) + 1
             /\ pad_log'[Len(pad_log')].outcome = "failed")
            => (links' = links /\ links = {} /\ ~link_panicked' /\ asm' = "playing")]_vars
    /\ [](asm \in {"playing", "failed"} => static_linked)
    /\ []((asm # "init" /\ ~static_linked) => (asm = "aborted" /\ pad_log = <<>>))
    /\ [][asm = "aborted" => asm' = "aborted"]_vars

\* The first matching pad's link was refused and the second one's was made.
C30_Witness ==
    /\ asm = "playing"
    /\ Len(pad_log) = 2
    /\ pad_log[1].outcome = "failed"
    /\ pad_log[2].outcome = "linked"
    /\ links = {2}

(***************************************************************************)
(* Drain: properties                                                       *)
(***************************************************************************)

\* C22 as claimed: every invocation of new_sample that has returned has
\* pulled exactly one sample and returned a success status.
C22_ExactlyOneSample ==
    dr_ret # "-" => (dr_pulled = 1 /\ dr_ret = "Ok")

\* C22 as amended: every invocation finds the application state alive, calls
\* pull_sample exactly once, obtains one sample, or none when the appsink
\* was stopped in the meantime and the pull failed, and returns success.
C22_ExactlyOnePull ==
    /\ dr_pc = "called" => dr_alive
    /\ dr_pc = "called" => (dr_pull_calls = 0 /\ dr_pulled = 0)
    /\ dr_ret # "-"
         => /\ dr_ret = "Ok"
            /\ dr_pull_calls = 1
            /\ dr_pulled \in {0, 1}
            /\ dr_pulled = 0 => ~sink_started

\* A callback of tutorial_shortcut_pipeline was running when the appsink
\* stopped: its pull failed and it returned Ok.
C22_Witness ==
    /\ dr_tut = "shortcut"
    /\ dr_calls = 2
    /\ dr_pc = "idle"
    /\ dr_ret = "Ok"
    /\ dr_pull_calls = 1
    /\ dr_pulled = 0
    /\ ~sink_started

(***************************************************************************)
(* Speed: properties                                                       *)
(***************************************************************************)

\* C24: the seek sent for a positive rate runs from the position queried to
\* the end of the stream, the seek sent for a negative rate runs from the
\* start of the stream to the position queried, and both carry the flags
\* flush and accurate.
C24_SeekDirection ==
    \A s \in sp_seek :
        /\ s.event.flags = {"FLUSH", "ACCURATE"}
        /\ ~s.event.rate.neg
             => /\ s.event.start_type = "Set" /\ s.event.start = s.position
                /\ s.event.stop_type = "End" /\ s.event.stop = 0
        /\ s.event.rate.neg
             => /\ s.event.start_type = "Set" /\ s.event.start = 0
                /\ s.event.stop_type = "Set" /\ s.event.stop = s.position

\* The graph state the requests made so far lead to.
GraphTarget ==
    IF pending # {} THEN CHOOSE t \in pending : TRUE ELSE gstate

\* C26: while tutorial_playback_speed handles commands, its play/pause flag
\* agrees with the state of the graph (the state it is in or moving to),
\* also after a state request that answered Failure.
C26_FlagMirrorsGraph ==
    sp_pc = "loop" => (sp_playing <=> GraphTarget = "Playing")

(***************************************************************************)
(* Tags: properties                                                        *)
(***************************************************************************)

\* C27: a tag-change signal callback touches no UI state, it only posts an
\* Application message named "tags-changed"; the stream-info text buffer is
\* rewritten only by the bus handler, in the step that delivers a
\* "tags-changed" message, once per such message; an Application message of
\* another name leaves the text buffer as it was.
C27_TagsOnlyViaBus ==
    /\ [][tg_signals' # tg_signals
            => /\ textbuf' = textbuf
               /\ tg_writes' = tg_writes
               /\ tg_bus' \in {tg_bus, Append(tg_bus, "tags-changed")}]_vars
    /\ [][(tg_writes' # tg_writes \/ textbuf' # textbuf)
            => /\ tg_bus # <<>>
               /\ Head(tg_bus) = "tags-changed"
               /\ tg_bus' = Tail(tg_bus)
               /\ tg_writes' = tg_writes + 1
               /\ tg_signals' = tg_signals]_vars
    /\ [][(tg_bus # <<>> /\ tg_bus' = Tail(tg_bus) /\ Head(tg_bus) # "tags-changed")
            => (textbuf' = textbuf /\ tg_writes' = tg_writes)]_vars
    /\ [](tg_writes = tg_delivered)

\* Two "tags-changed" messages and one of another name were delivered: the
\* buffer was rewritten twice and lists the video and audio streams.
C27_Witness ==
    /\ tg_signals = 2
    /\ tg_others = 1
    /\ tg_bus = <<>>
    /\ tg_delivered = 2
    /\ tg_writes = 2
    /\ textbuf = <<"video", "audio">>

(***************************************************************************)
(* Run: properties                                                         *)
(***************************************************************************)

\* C7: the graph never rises by more than one lifecycle state in a step, so
\* a request of Playing issued in Null brings it to Playing only after it
\* has been in Ready and then in Paused.
C7_NoSkipOnTheWayUp ==
    /\ [](gstate = "Playing" => (seen_ready /\ seen_paused))
    /\ [](gstate = "Paused" => seen_ready)
    /\ [][Rank(gstate') > Rank(gstate) => Rank(gstate') = Rank(gstate) + 1]_vars

\* tutorial_concept's request of Playing, issued in Null, has brought the
\* graph to Playing.
C7_Witness ==
    /\ tut = "concept"
    /\ pc = "loop"
    /\ gstate = "Playing"
    /\ pending = {}
    /\ seen_ready
    /\ seen_paused

C9_ErrorIsTerminal ==
    error_handled => (quit \/ pc \notin {"loop", "relock"})

\* C10 as claimed: in every blocking-iteration dispatcher, when the function
\* has returned after handling an Error message, the error was logged and
\* the graph is in Null.
C10_ErrorLeavesGraphNull ==
    (tut \in SimpleBlocking \cup {"queue"} /\ error_handled /\ pc = "done")
      => (error_logged /\ gstate = "Null")

\* C11 as claimed: a tutorial whose dispatcher has handled an Error message
\* and that has torn its graph down does not return Ok to main (pc = "done"
\* is the return of Ok(()), pc = "failed" an Err or a panic).
C11_ErrorReturnsErr ==
    (error_handled /\ teardown_from # {}) => pc # "done"

\* A message popped by the tutorial's dispatcher in this step.
Dispatching(kind) ==
    /\ pc = "loop"
    /\ bus # <<>>
    /\ bus' = Tail(bus)
    /\ Head(bus).kind = kind

\* C12 as claimed: in every watch-mode dispatcher, once an end of stream is
\* handled, Ready was requested and the loop is quit.
C12_EosReadyAndQuit ==
    \A h \in handled :
      (tut \in WatchMode /\ h.kind = "Eos") => (h.requested = "Ready" /\ quit)

\* C12 as amended: a watch-mode dispatcher that handles an end of stream
\* requests Ready; tutorial_streaming has also quit its loop, and
\* tutorial_guikit's handler leaves quit as it was.
C12_EosReadyQuitOnlyStreaming ==
    /\ [](\A h \in handled :
            (tut \in WatchMode /\ h.kind = "Eos")
              => /\ h.requested = "Ready"
                 /\ tut \in {"guikit", "streaming"}
                 /\ tut = "streaming" => quit)
    /\ [][(tut = "guikit" /\ Dispatching("Eos")) => quit' = quit]_vars

\* tutorial_guikit has handled an end of stream with the graph in Playing:
\* Ready is the transition in progress and the GUI loop still runs.
C12_Witness ==
    /\ tut = "guikit"
    /\ pc = "loop"
    /\ ~quit
    /\ gstate = "Playing"
    /\ pending = {"Ready"}
    /\ \E h \in handled : h.kind = "Eos" /\ h.requested = "Ready"

\* C13: a StateChanged message that does not come from the graph itself (a
\* child's, or one without a source) is never taken for the graph's: it
\* triggers no report, and in tutorial_queue it changes neither the playing
\* flag nor, through the Seeking query, seek_enabled.
C13_OnlyGraphStateChanged ==
    /\ [](\A h \in handled :
            (h.kind = "StateChanged" /\ h.src # "pipeline") => ~h.acted)
    /\ [][(Dispatching("StateChanged") /\ Head(bus).src # "pipeline")
            => UNCHANGED <<playing, seek_enabled>>]_vars

\* tutorial_queue has handled a child's change to Playing while the graph
\* itself is in Playing and its own change not yet handled.
C13_Witness ==
    /\ tut = "queue"
    /\ gstate = "Playing"
    /\ ~playing
    /\ \E h \in handled :
         h.kind = "StateChanged" /\ h.src = "sink" /\ ~h.acted

\* The periodic work of tutorial_queue's loop that got past the position
\* query in this step and went on.
DurationUse ==
    /\ tut = "queue"
    /\ pc = "loop"
    /\ pc' = "loop"
    /\ playing
    /\ bus = <<>>
    /\ bus' = <<>>

\* C14: handling DurationChanged leaves the cache unknown; with the cache
\* unknown the next use stores what the graph answers (its current duration,
\* or unknown again), never a value the graph no longer has; a known cached
\* value changes only by being invalidated by a DurationChanged.
C14_DurationCache ==
    /\ [][(tut = "queue" /\ Dispatching("DurationChanged")) => duration' = {}]_vars
    /\ [][(DurationUse /\ duration = {}) => duration' \in {media_duration, {}}]_vars
    /\ [][(duration # {} /\ duration' # duration)
            => (Dispatching("DurationChanged") /\ duration' = {})]_vars

\* Two DurationChanged were handled, the second one to 90, and the next use
\* has fetched 90.
C14_Witness ==
    /\ tut = "queue"
    /\ duration = {90}
    /\ media_duration = {90}
    /\ posted = 2
    /\ bus = <<>>
    /\ \E h \in handled : h.kind = "DurationChanged"

\* C15: in a run that is not live, the buffering handler requests Paused for
\* a level below 30 and Playing for a level of 30 or more, and nothing else.
C15_BufferingThreshold ==
    \A h \in handled :
      (tut = "streaming" /\ ~is_live /\ h.kind = "Buffering")
        => /\ h.percent < 30 => h.requested = "Paused"
           /\ h.percent >= 30 => h.requested = "Playing"

\* A level of exactly 30 was handled in a run that is not live.
C15_Witness ==
    /\ tut = "streaming"
    /\ ~is_live
    /\ handled = {[kind |-> "Buffering", src |-> "source", percent |-> 30,
                   requested |-> "Playing", acted |-> FALSE]}

\* C16 as claimed: a BufferingLevel message on the same side of the
\* threshold as the BufferingLevel message handled just before it causes no
\* state request.
C16_BufferingEdgeGated ==
    [][(/\ tut = "streaming"
        /\ Dispatching("Buffering")
        /\ \E h \in handled :
             /\ h.kind = "Buffering"
             /\ (h.percent < 30) = (Head(bus).percent < 30))
         => \A h \in handled' : h.requested = "-"]_vars

\* C17: a Playing request answered NoPreroll lets the run go on as a live
\* one, a live run stays live, and in a live run no BufferingLevel message
\* causes a state request.
C17_LiveExemption ==
    /\ [][(tut = "streaming" /\ pc = "init" /\ pc' # "init")
            => /\ is_live' = (last_result' = "NoPreroll")
               /\ last_result' = "NoPreroll" => pc' = "loop"]_vars
    /\ [][is_live => is_live']_vars
    /\ [](\A h \in handled :
            (tut = "streaming" /\ is_live /\ h.kind = "Buffering")
              => h.requested = "-")
    /\ [][(tut = "streaming" /\ is_live /\ Dispatching("Buffering"))
            => UNCHANGED <<gstate, pending, last_result>>]_vars

\* A live run has handled a level below the threshold and plays on.
C17_Witness ==
    /\ tut = "streaming"
    /\ is_live
    /\ gstate = "Playing"
    /\ pending = {}
    /\ handled = {[kind |-> "Buffering", src |-> "source", percent |-> 29,
                   requested |-> "-", acted |-> FALSE]}

\* C18 as claimed: when a run that uses a bus watch requests Null, its watch
\* has been unregistered before.
C18_WatchRemovedBeforeNull ==
    [][(tut \in WatchMode /\ teardown_from = {} /\ teardown_from' # {})
         => ~watch]_vars


\* C25: a rejected seek is not fatal: no run ends with an error because a
\* seek request was refused, and the step in which a seek is refused leaves
\* the position bookkeeping (seek_done) as it was.
C25_RejectedSeekNonFatal ==
    /\ [](fail_cause # "seek")
    /\ [][fail_cause' = "seek" => (pc' = pc /\ seek_done' = seek_done)]_vars


\* The handler was given the message at the front of the bus.
GotFront ==
    /\ handled' # {}
    /\ \A h \in handled' :
         /\ h.kind = Head(bus).kind
         /\ h.src = Head(bus).src
         /\ h.percent = Head(bus).percent

PeriodicWork ==
    \/ seek_done' # seek_done
    \/ fail_cause' # fail_cause
    \/ (duration = {} /\ duration' # {})

\* C29: tutorial_queue does its periodic work (the position and duration
\* display, the one seek) only in an iteration whose timed_pop returned no
\* message, and only with playing set; an iteration that handled a message
\* does none of it.
C29_PollingOnlyOnNoMessage ==
    /\ [][(tut = "queue" /\ PeriodicWork)
            => /\ bus = <<>>
               /\ bus' = bus
               /\ playing
               /\ handled' = handled]_vars
    /\ [][(tut = "queue" /\ bus # <<>> /\ bus' = Tail(bus)) => ~PeriodicWork]_vars
    /\ [][(tut = "queue" /\ pc = "loop" /\ ~playing)
            => (seek_done' = seek_done /\ fail_cause' = fail_cause
                /\ duration' \in {duration, {}})]_vars

\* tutorial_queue has handled messages and then, on an empty bus and with
\* playing set, fetched the duration and done its one seek.
C29_Witness ==
    /\ tut = "queue"
    /\ pc = "loop"
    /\ playing
    /\ bus = <<>>
    /\ handled # {}
    /\ seek_done
    /\ duration = {90}


\* The status the process exits with once the tutorial function is over:
\* main unwraps the Result, so an Err (like a panic inside the tutorial)
\* ends the process with status 101, and an Ok(()) with status 0.
ExitStatus ==
    IF pc = "failed" THEN 101 ELSE 0

\* Something the core was asked to do has failed in this run: the GUI
\* could not be initialized, a state request was refused, or a query, flush
\* or seek of tutorial_queue's loop returned an error.
CoreFailed ==
    \/ (tut = "guikit" /\ ~gdk)
    \/ last_result = "Failure"
    \/ fail_cause # "-"

\* C31: a run in which the initialization, a state transition or the
\* dispatcher's work failed does not end with exit status 0.
C31_NonZeroExitOnFailure ==
    (pc \in {"done", "failed"} /\ CoreFailed) => ExitStatus # 0


(***************************************************************************)
(* Discover: properties                                                    *)
(***************************************************************************)

\* The lines of the report that are of the kind item.
ReportLines(item) ==
    SelectSeq(dc_report, LAMBDA l : l.item = item)

\* The streams of a topology.
RECURSIVE StreamCount(_)
RECURSIVE StreamsCount(_)
StreamCount(info) ==
    1 + (IF info.next # <<>> THEN StreamCount(info.next[1]) ELSE 0)
      + StreamsCount(info.streams)

StreamsCount(streams) ==
    IF streams = <<>>
      THEN 0
      ELSE StreamCount(Head(streams)) + StreamsCount(Tail(streams))

\* C32: discovery reports exactly one outcome for the URI; duration, tags,
\* seekability and the stream topology are reported only for the result Ok,
\* and for any other result the outcome is all that is reported; the run
\* ends, with the loop quit and the discoverer stopped, once discovery has
\* finished.
C32_OneOutcomePerUri ==
    /\ [](\A i \in dc_info :
            /\ Len(ReportLines("Outcome")) = 1
            /\ dc_report[1].item = "Outcome"
            /\ dc_report[1].name = i.r.result
            /\ i.r.result # "Ok" => Len(dc_report) = 1
            /\ i.r.result = "Ok"
                 => /\ Len(ReportLines("Duration")) = 1
                    /\ Len(ReportLines("Seekable")) = 1
                    /\ Len(ReportLines("Tags")) = (IF i.d.tags = {} THEN 0 ELSE 1)
                    /\ Len(ReportLines("Stream"))
                         = (IF i.d.stream_info = {}
                              THEN 0
                              ELSE StreamCount(CHOOSE t \in i.d.stream_info : TRUE)))
    /\ [](dc_info = {} => dc_report = <<>>)
    /\ [][dc_info # {} => dc_info' = dc_info /\ dc_report' = dc_report]_vars
    /\ [](dc_pc = "done" => (dc_info # {} /\ ~dc_started))
    /\ [](dc_pc = "running" => dc_started)
    /\ (dc_info # {}) ~> (dc_pc = "done")

\* A discovery that ended with MissingPlugins, although the info held a
\* duration, tags and a container topology, reported its outcome alone, and
\* the run is over.
C32_Witness ==
    /\ dc_pc = "done"
    /\ ~dc_started
    /\ Len(dc_report) = 1
    /\ dc_report[1].name = "MissingPlugins"
    /\ \E i \in dc_info :
         /\ i.d.duration # {}
         /\ i.d.tags # {}
         /\ i.d.stream_info = {ContainerStream}


(***************************************************************************)
(* Flow: properties                                                        *)
(***************************************************************************)

C34_NeedDataSchedulesTask ==
    [][(pc_need = "locked" /\ pc_need' = "idle" /\ sources = {})
         => sources' # {}]_vars


\* The tutorial function is over after its request of Playing was accepted:
\* it returned Ok, or it returned the error of a query, flush or seek.
ReturnedAfterPlaying ==
    \/ (pc = "done" /\ ~(tut = "guikit" /\ ~gdk))
    \/ (pc = "failed" /\ fail_cause # "-")

\* C35: a tutorial whose request of Playing was accepted has requested Null
\* on the graph by the time it returns, on every exit path.
C35_NullBeforeReturn ==
    ReturnedAfterPlaying => teardown_from # {}


\* C36: in tutorial_streaming the watch handler never ends the watch (it is
\* removed only by the main thread after the loop), the main loop is quit
\* only by the handler's Error and Eos branches, after either the run
\* unregisters the watch and then requests Null, and without either the run
\* does not get past its main loop.
C36_WatchTermination ==
    /\ [][(watch /\ ~watch') => (pc = "teardown" /\ quit)]_vars
    /\ [][(~quit /\ quit')
            => (bus # <<>> /\ Head(bus).kind \in {"Error", "Eos"}
                /\ bus' = Tail(bus))]_vars
    /\ [](pc \in {"teardown", "done"}
            => (quit /\ \E h \in handled : h.kind \in {"Error", "Eos"}))
    /\ [](teardown_from # {} => ~watch)
    /\ quit ~> (pc = "done" /\ ~watch /\ teardown_from # {} /\ gstate = "Null")

\* tutorial_streaming went on watching after a ClockLost and a Buffering
\* message, handled an Eos, removed its watch and requested Null.
C36_Witness ==
    /\ tut = "streaming"
    /\ pc = "done"
    /\ posted = 2
    /\ quit
    /\ ~watch
    /\ teardown_from # {}
    /\ \E h \in handled : h.kind = "Eos"
    /\ gstate = "Null"


\* C37: tutorial_queue calls seek_simple at most once per run, only in a
\* timed-out iteration with playing and seek_enabled set, seek_done clear and
\* a position above 3 seconds; seek_done becomes true only in the step of a
\* seek that succeeded, and never becomes false again.
C37_AutomaticSeekOnce ==
    /\ [](Len(seek_at) <= 1)
    /\ [](\A i \in 1..Len(seek_at) : seek_at[i] > SeekAfterSeconds)
    /\ [][seek_at' # seek_at
            => /\ tut = "queue"
               /\ pc = "loop"
               /\ bus = <<>>
               /\ playing
               /\ seek_enabled
               /\ ~seek_done
               /\ Len(seek_at') = Len(seek_at) + 1]_vars
    /\ [][seek_done' # seek_done
            => /\ ~seek_done
               /\ Len(seek_at') = Len(seek_at) + 1
               /\ pc' = "loop"
               /\ fail_cause' = "-"]_vars
    /\ [][seek_done => seek_done']_vars

\* tutorial_queue has done its seek at position 4, went on, and is in a later
\* timed-out iteration in which the seek condition but for seek_done holds.
C37_Witness ==
    /\ tut = "queue"
    /\ pc = "loop"
    /\ seek_at = <<4>>
    /\ seek_done
    /\ seek_enabled
    /\ playing
    /\ bus = <<>>
    /\ posted = MaxPosted


\* C38: in tutorial_playback_speed the stored rate is, after any sequence
\* of commands, never zero and always plus or minus a power of two (it is
\* doubled, halved or negated only by a command whose seek event was
\* accepted); here: the stored rate is a finite, non-zero power of two.
C38_RateIsPowerOfTwo ==
    /\ ~IsZero(sp_rate)
    /\ ~IsInfinite(sp_rate)


(***************************************************************************)
(* Slider: properties                                                      *)
(***************************************************************************)

\* C39: the once-per-second refresh of the slider of tutorial_guikit never
\* issues a seek, seeks come from value changes made by the user only, and
\* the value-changed handler is unblocked whenever the timer callback has
\* returned.
C39_RefreshNeverSeeks ==
    /\ \A i \in 1..Len(sl_seeks) : sl_seeks[i].by = "user"
    /\ ~sl_blocked


(***************************************************************************)
(* Weak: properties                                                        *)
(***************************************************************************)

\* The callbacks that hold a Weak only.
WeakCallbacks ==
    {"need_data", "enough_data", "task", "new_sample", "application"}

\* C40: a callback whose upgrade fails (need_data, enough_data, the
\* generation closure, new_sample, the application message handler) changes
\* nothing of the shared state; the generation closure is then not called
\* again, and new_sample then still returns success.
C40_UpgradeOrSkip ==
    /\ [][(wk_calls' # wk_calls /\ ~wk_last'.upgraded)
            => UNCHANGED <<wk_source_id, wk_chunks, wk_pulls, wk_writes>>]_vars
    /\ [][(wk_calls' # wk_calls /\ wk_last'.cb = "task" /\ ~wk_last'.upgraded)
            => (wk_task /\ ~wk_task')]_vars
    /\ [][(wk_calls' # wk_calls /\ wk_last'.cb # "task" /\ ~wk_last'.upgraded)
            => wk_task' = wk_task]_vars
    /\ []((wk_last.cb = "new_sample" /\ ~wk_last.upgraded) => wk_last.ret = "Ok")
    /\ [][~wk_data => UNCHANGED <<wk_source_id, wk_chunks, wk_pulls>>]_vars
    /\ [][(~wk_pipeline \/ ~wk_list) => UNCHANGED wk_writes]_vars

\* Each of the five callbacks has run on a failed upgrade, after the shared
\* state had been worked on; the last one was the generation closure, whose
\* idle source is gone.
C40_Witness ==
    /\ wk_skipped = WeakCallbacks
    /\ wk_last.cb = "task"
    /\ ~wk_last.upgraded
    /\ ~wk_task
    /\ wk_source_id # {}

====
